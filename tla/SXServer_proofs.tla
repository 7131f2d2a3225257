--------------------------- MODULE SXServer_proofs ---------------------------
(***************************************************************************)
(* Theorems about SXServer, for every number of connections and places.    *)
(***************************************************************************)
EXTENDS SXServer, FiniteSetTheorems, TLAPS

\* The next-state relation with the threads' common steps taken out of Program,
\* ListenerStep and WorkerStep: the case split of every proof below.
LEMMA NextCases ==
    ASSUME Next
    PROVE  \/ \E t \in Threads : SXReleaseLoad(t) \/ SXReleaseStore(t) \/ SXReleaseTest(t)
           \/ SXServerStart \/ StatusStore \/ SXKillServer \/ Terminate \/ OwnerRelease
           \/ \E o \in Managed : SXSuspendObject(o) \/ SXResumeObject(o)
           \/ DidStart \/ While \/ Check \/ Guests \/ IncLoad \/ IncStore \/ Stop \/ DidKill
           \/ \E c \in Conns : \/ Connect(c) \/ Send(c) \/ Hangup(c)
                               \/ Accept(c) \/ Refuse(c) \/ AcceptFails(c)
                               \/ WorkerStart(c) \/ RetainStore(c) \/ Top(c) \/ Switch(c)
                               \/ Resume(c) \/ Recv(c) \/ SuspendedRecv(c)
                               \/ HandlerReturns(c) \/ CloseSocket(c) \/ Leave(c) \/ DecStore(c)
  BY DEF Next, Program, Peers, ListenerStep, WorkerStep, SXRelease, Threads

-----------------------------------------------------------------------------
(* Type correctness.                                                       *)

USE DEF At, Goto, Step, Status, Idle, Running, Resuming, Suspend, ShouldTerminate

LEMMA TypeInit == Init => TypeOK
<1> SUFFICES ASSUME Init PROVE TypeOK
  OBVIOUS
<1>1. FlagsOK
  BY DEF Init, FlagsOK
<1>2. PcOK
  BY SXServerAssumption
  DEF Init, PcOK, Threads, OwnerPc, ListenerPc, WorkerPc, ReleasePc
<1>3. DataOK
  BY SXServerAssumption DEF Init, DataOK, Objects
<1>4. NetOK
  BY SXServerAssumption DEF Init, NetOK
<1>5. QED
  BY <1>1, <1>2, <1>3, <1>4 DEF TypeOK

LEMMA FlagsNext == FlagsOK /\ [Next]_vars => FlagsOK'
<1> SUFFICES ASSUME FlagsOK, [Next]_vars PROVE FlagsOK'
  OBVIOUS
<1> USE DEF FlagsOK, refVars, countVars, appVars, ListenerMoves, WorkerMoves
<1>1. CASE UNCHANGED vars
  BY <1>1 DEF vars
<1>2. ASSUME NEW t \in Threads, SXReleaseLoad(t) PROVE FlagsOK'
  BY <1>2 DEF SXReleaseLoad, Ref!Load
<1>3. ASSUME NEW t \in Threads, SXReleaseStore(t) PROVE FlagsOK'
  BY <1>3 DEF SXReleaseStore, Ref!StoreAndKeep, Ref!Overwrite
<1>4. ASSUME NEW t \in Threads, SXReleaseTest(t) PROVE FlagsOK'
  BY <1>4 DEF SXReleaseTest, Frees
<1>5. CASE SXServerStart \/ StatusStore \/ SXKillServer \/ Terminate \/ OwnerRelease
  BY <1>5 DEF SXServerStart, StatusStore, SXKillServer, Terminate, OwnerRelease
<1>6. ASSUME NEW o \in Managed, SXSuspendObject(o) \/ SXResumeObject(o) PROVE FlagsOK'
  BY <1>6 DEF SXSuspendObject, SXResumeObject
<1>7. CASE DidStart \/ While \/ Check \/ Guests \/ Stop \/ DidKill
  BY <1>7 DEF DidStart, While, Check, Guests, Stop, DidKill
<1>8. CASE IncLoad \/ IncStore
  BY <1>8 DEF IncLoad, IncStore, Count!Load, Count!Store, Count!Overwrite
<1>9. ASSUME NEW c \in Conns, \/ Connect(c) \/ Send(c) \/ Hangup(c)
                              \/ Accept(c) \/ Refuse(c) \/ AcceptFails(c) PROVE FlagsOK'
  BY <1>9 DEF Connect, Send, Hangup, Accept, Refuse, AcceptFails
<1>10. ASSUME NEW c \in Conns, WorkerStart(c) \/ RetainStore(c) PROVE FlagsOK'
  BY <1>10 DEF WorkerStart, RetainStore, Ref!Load, Ref!Store, Ref!Overwrite
<1>11. ASSUME NEW c \in Conns, Switch(c) PROVE FlagsOK'
  BY <1>11 DEF Switch
<1>12. ASSUME NEW c \in Conns, \/ Top(c) \/ Resume(c) \/ Recv(c) \/ SuspendedRecv(c)
                               \/ HandlerReturns(c) \/ CloseSocket(c) PROVE FlagsOK'
  BY <1>12 DEF Top, Resume, Recv, SuspendedRecv, HandlerReturns, CloseSocket
<1>13. ASSUME NEW c \in Conns, Leave(c) \/ DecStore(c) PROVE FlagsOK'
  BY <1>13 DEF Leave, DecStore, Count!Load, Count!Store, Count!Overwrite
<1>14. QED
  BY <1>1, <1>2, <1>3, <1>4, <1>5, <1>6, <1>7, <1>8, <1>9, <1>10, <1>11, <1>12, <1>13,
     NextCases

LEMMA PcNext == PcOK /\ [Next]_vars => PcOK'
<1> SUFFICES ASSUME PcOK, [Next]_vars PROVE PcOK'
  OBVIOUS
<1> USE SXServerAssumption
    DEF PcOK, Threads, OwnerPc, ListenerPc, WorkerPc, LoopPc, ReleasePc
<1>1. CASE UNCHANGED vars
  BY <1>1 DEF vars
<1>2. ASSUME NEW t \in Threads, SXReleaseLoad(t) PROVE PcOK'
  BY <1>2 DEF SXReleaseLoad, AfterRelease, Ref!Load
<1>3. ASSUME NEW t \in Threads, SXReleaseStore(t) PROVE PcOK'
  BY <1>3 DEF SXReleaseStore, Ref!StoreAndKeep, Ref!Overwrite
<1>4. ASSUME NEW t \in Threads, SXReleaseTest(t) PROVE PcOK'
  BY <1>4 DEF SXReleaseTest, AfterRelease
<1>5. CASE SXServerStart
  BY <1>5 DEF SXServerStart
<1>6. CASE StatusStore
  BY <1>6 DEF StatusStore
<1>7. CASE SXKillServer \/ Terminate \/ OwnerRelease
  BY <1>7 DEF SXKillServer, Terminate, OwnerRelease
<1>8. ASSUME NEW o \in Managed, SXSuspendObject(o) \/ SXResumeObject(o) PROVE PcOK'
  BY <1>8 DEF SXSuspendObject, SXResumeObject
<1>9. CASE DidStart \/ While \/ Check \/ Guests \/ Stop \/ DidKill
  BY <1>9 DEF DidStart, While, Check, Guests, Stop, DidKill
<1>10. CASE IncLoad \/ IncStore
  BY <1>10 DEF IncLoad, IncStore, Count!Load, Count!Store, Count!Overwrite
<1>11. ASSUME NEW c \in Conns, Connect(c) \/ Send(c) PROVE PcOK'
  BY <1>11 DEF Connect, Send
<1>12. ASSUME NEW c \in Conns, Hangup(c) PROVE PcOK'
  BY <1>12 DEF Hangup
<1>13. ASSUME NEW c \in Conns, Accept(c) \/ Refuse(c) \/ AcceptFails(c) PROVE PcOK'
  BY <1>13 DEF Accept, Refuse, AcceptFails
<1>14. ASSUME NEW c \in Conns, WorkerStart(c) \/ RetainStore(c) PROVE PcOK'
  BY <1>14 DEF WorkerStart, RetainStore, Ref!Load, Ref!Store, Ref!Overwrite
<1>15. ASSUME NEW c \in Conns, Top(c) \/ Switch(c) \/ Resume(c) PROVE PcOK'
  BY <1>15 DEF Top, Switch, Branch, Resume
<1>16. ASSUME NEW c \in Conns, Recv(c) PROVE PcOK'
  BY <1>16 DEF Recv, Read, AtEof, Broken, Deliver
<1>17. ASSUME NEW c \in Conns, SuspendedRecv(c) PROVE PcOK'
  BY <1>17 DEF SuspendedRecv, SuspendedTarget, Read, AtEof, Broken, Deliver
<1>18. ASSUME NEW c \in Conns, HandlerReturns(c) \/ CloseSocket(c) PROVE PcOK'
  BY <1>18 DEF HandlerReturns, CloseSocket
<1>19. ASSUME NEW c \in Conns, Leave(c) \/ DecStore(c) PROVE PcOK'
  BY <1>19 DEF Leave, DecStore, Count!Load, Count!Store, Count!Overwrite
<1>20. QED
  BY <1>1, <1>2, <1>3, <1>4, <1>5, <1>6, <1>7, <1>8, <1>9, <1>10, <1>11, <1>12, <1>13,
     <1>14, <1>15, <1>16, <1>17, <1>18, <1>19, NextCases

LEMMA NetNext == NetOK /\ [Next]_vars => NetOK'
<1> SUFFICES ASSUME NetOK, [Next]_vars PROVE NetOK'
  OBVIOUS
<1> USE SXServerAssumption DEF NetOK, netVars, ListenerMoves
<1>1. CASE UNCHANGED netVars
  BY <1>1
<1>2. ASSUME NEW c \in Conns, Send(c) PROVE NetOK'
  BY <1>2 DEF Send
<1>3. ASSUME NEW c \in Conns, Hangup(c) PROVE NetOK'
  BY <1>3 DEF Hangup
<1>4. ASSUME NEW c \in Conns, Read(c) PROVE NetOK'
  BY <1>4 DEF Read
<1>5. ASSUME NEW c \in Conns, Recv(c) \/ SuspendedRecv(c) PROVE UNCHANGED netVars \/ Read(c)
  BY <1>5 DEF Recv, SuspendedRecv, AtEof, Broken
<1>6. CASE UNCHANGED vars
  BY <1>6, <1>1 DEF vars
<1>7. ASSUME NEW t \in Threads, SXReleaseLoad(t) \/ SXReleaseStore(t) \/ SXReleaseTest(t)
      PROVE  UNCHANGED netVars
  BY <1>7 DEF SXReleaseLoad, SXReleaseStore, SXReleaseTest
<1>8. ASSUME \/ SXServerStart \/ StatusStore \/ SXKillServer \/ Terminate \/ OwnerRelease
             \/ \E o \in Managed : SXSuspendObject(o) \/ SXResumeObject(o)
             \/ DidStart \/ While \/ Check \/ Guests \/ IncLoad \/ IncStore \/ Stop \/ DidKill
      PROVE  UNCHANGED netVars
  BY <1>8 DEF SXServerStart, StatusStore, SXKillServer, Terminate, OwnerRelease,
              SXSuspendObject, SXResumeObject, DidStart, While, Check, Guests,
              IncLoad, IncStore, Stop, DidKill
<1>9. ASSUME NEW c \in Conns,
             \/ Connect(c) \/ Accept(c) \/ Refuse(c) \/ AcceptFails(c) \/ WorkerStart(c)
             \/ RetainStore(c) \/ Top(c) \/ Switch(c) \/ Resume(c) \/ HandlerReturns(c)
             \/ CloseSocket(c) \/ Leave(c) \/ DecStore(c)
      PROVE  UNCHANGED netVars
  BY <1>9 DEF Connect, Accept, Refuse, AcceptFails, WorkerStart, RetainStore, Top, Switch,
              Resume, HandlerReturns, CloseSocket, Leave, DecStore
<1>10. QED
  BY <1>1, <1>2, <1>3, <1>4, <1>5, <1>6, <1>7, <1>8, <1>9, NextCases

LEMMA DataNext == DataOK /\ [Next]_vars => DataOK'
<1> SUFFICES ASSUME DataOK, [Next]_vars PROVE DataOK'
  OBVIOUS
<1> USE SXServerAssumption
    DEF DataOK, Threads, Objects, refVars, countVars, netVars, appVars,
        ListenerMoves, WorkerMoves
<1>1. CASE UNCHANGED vars
  BY <1>1 DEF vars
<1>2. ASSUME NEW t \in Threads, SXReleaseLoad(t) PROVE DataOK'
  BY <1>2 DEF SXReleaseLoad, AfterRelease, Ref!Load
<1>3. ASSUME NEW t \in Threads, SXReleaseStore(t) PROVE DataOK'
  BY <1>3 DEF SXReleaseStore, Ref!StoreAndKeep, Ref!Overwrite
<1>4. ASSUME NEW t \in Threads, SXReleaseTest(t) PROVE DataOK'
  BY <1>4 DEF SXReleaseTest, AfterRelease
<1>5. CASE SXServerStart
  BY <1>5 DEF SXServerStart
<1>6. CASE StatusStore
  BY <1>6 DEF StatusStore
<1>7. CASE SXKillServer \/ Terminate \/ OwnerRelease
  BY <1>7 DEF SXKillServer, Terminate, OwnerRelease
<1>8. ASSUME NEW o \in Managed, SXSuspendObject(o) \/ SXResumeObject(o) PROVE DataOK'
  BY <1>8 DEF SXSuspendObject, SXResumeObject
<1>9. CASE DidStart \/ While \/ Check \/ Guests \/ Stop \/ DidKill
  BY <1>9 DEF DidStart, While, Check, Guests, Stop, DidKill
<1>10. CASE IncLoad \/ IncStore
  BY <1>10 DEF IncLoad, IncStore, Count!Load, Count!Store, Count!Overwrite
<1>11. ASSUME NEW c \in Conns, Connect(c) \/ Send(c) PROVE DataOK'
  BY <1>11 DEF Connect, Send
<1>12. ASSUME NEW c \in Conns, Hangup(c) PROVE DataOK'
  BY <1>12 DEF Hangup
<1>13. ASSUME NEW c \in Conns, Accept(c) \/ Refuse(c) \/ AcceptFails(c) PROVE DataOK'
  BY <1>13 DEF Accept, Refuse, AcceptFails
<1>14. ASSUME NEW c \in Conns, WorkerStart(c) \/ RetainStore(c) PROVE DataOK'
  BY <1>14 DEF WorkerStart, RetainStore, Ref!Load, Ref!Store, Ref!Overwrite
<1>15. ASSUME NEW c \in Conns, Top(c) \/ Switch(c) \/ Resume(c) PROVE DataOK'
  BY <1>15 DEF Top, Switch, Branch, Resume
<1>16. ASSUME NEW c \in Conns, Recv(c) PROVE DataOK'
  <2>1. /\ WorkerMoves /\ UNCHANGED <<stat, suspended>>
        /\ UNCHANGED late \/ Deliver(c)
    BY <1>16 DEF Recv
  <2>2. QED
    BY <2>1 DEF Deliver
<1>17. ASSUME NEW c \in Conns, SuspendedRecv(c) PROVE DataOK'
  <2>1. /\ WorkerMoves /\ UNCHANGED <<stat, suspended>>
        /\ UNCHANGED late \/ Deliver(c)
    BY <1>17 DEF SuspendedRecv
  <2>2. QED
    BY <2>1 DEF Deliver
<1>18. ASSUME NEW c \in Conns, HandlerReturns(c) \/ CloseSocket(c) PROVE DataOK'
  BY <1>18 DEF HandlerReturns, CloseSocket
<1>19. ASSUME NEW c \in Conns, Leave(c) \/ DecStore(c) PROVE DataOK'
  BY <1>19 DEF Leave, DecStore, Count!Load, Count!Store, Count!Overwrite
<1>20. QED
  BY <1>1, <1>2, <1>3, <1>4, <1>5, <1>6, <1>7, <1>8, <1>9, <1>10, <1>11, <1>12, <1>13,
     <1>14, <1>15, <1>16, <1>17, <1>18, <1>19, NextCases

\* In every reachable state of the server every variable has its type.
THEOREM TypeCorrect == Spec => []TypeOK
<1>1. TypeOK /\ [Next]_vars => TypeOK'
  BY PcNext, FlagsNext, NetNext, DataNext DEF TypeOK
<1>2. QED
  BY TypeInit, <1>1, PTL DEF Spec

-----------------------------------------------------------------------------
(* The reference count.                                                    *)

LEMMA HoldersFinite == IsFiniteSet(Holders) /\ Cardinality(Holders) \in Nat
<1>1. IsFiniteSet(Threads)
  <2>1. IsFiniteSet(Conns \cup {Owner})
    BY SXServerAssumption, FS_AddElement
  <2>2. IsFiniteSet((Conns \cup {Owner}) \cup {Listener})
    BY <2>1, FS_AddElement
  <2>3. (Conns \cup {Owner}) \cup {Listener} = Threads
    BY DEF Threads
  <2>4. QED
    BY <2>2, <2>3
<1>2. Holders \subseteq Threads
  BY DEF Holders
<1>3. QED
  BY <1>1, <1>2, FS_Subset, FS_CardinalityType

\* What one thread's step does to the set of holders.
LEMMA HoldersMove ==
    ASSUME PcOK, NEW t \in Threads, NEW l, Goto(t, l)
    PROVE  /\ l \in HoldingPc => Holders' = Holders \cup {t}
           /\ l \notin HoldingPc => Holders' = Holders \ {t}
           /\ (l \in HoldingPc <=> pc[t] \in HoldingPc) => Holders' = Holders
  BY DEF PcOK, Holders

\* A step that leaves the count alone and neither takes nor gives back a reference.
LEMMA QuietMove ==
    ASSUME PcOK, RefInv, NEW t \in Threads, NEW l, Goto(t, l),
           pc[t] \notin {"created", "off"},
           pc[t] = "new" => pc[Listener] \notin {"off", "start"},
           l \notin {"retStore", "relStore", "created", "off", "start", "new"},
           ref = Weak \/ (l \in HoldingPc <=> pc[t] \in HoldingPc),
           UNCHANGED refVars, freed => freed',
           \A u \in Threads \ {t} : reg'[u] = reg[u]
    PROVE  RefInv'
<1> USE DEF refVars
<1>1. RefAccounting'
  BY HoldersMove DEF RefInv, RefAccounting
<1>2. (\A u \in Threads : pc[u] \in {"retStore", "relStore"} => reg[u] # Weak)'
  BY DEF RefInv, PcOK
<1>3. (pc[Owner] = "created" <=> pc[Listener] = "off")'
  BY DEF RefInv, PcOK, Threads
<1>4. (pc[Owner] = "created" => ref = 1)'
  BY DEF RefInv, PcOK, Threads
<1>5. (pc[Listener] \in {"off", "start"} => \A c \in Conns : pc[c] = "new")'
  BY DEF RefInv, PcOK, Threads
<1>6. QED
  BY <1>1, <1>2, <1>3, <1>4, <1>5 DEF RefInv

LEMMA RefInit == Init => RefInv
<1> SUFFICES ASSUME Init PROVE RefInv
  OBVIOUS
<1>1. Holders = {Owner}
  BY SXServerAssumption DEF Init, Holders, HoldingPc, LoopPc, Threads
<1>2. Cardinality(Holders) = 1
  BY <1>1, FS_Singleton
<1>3. QED
  BY <1>2, SXServerAssumption DEF Init, RefInv, RefAccounting, Threads

LEMMA RefNext == TypeOK /\ RefInv /\ [Next]_vars => RefInv'
<1> SUFFICES ASSUME TypeOK, RefInv, [Next]_vars PROVE RefInv'
  OBVIOUS
<1>a. PcOK /\ reg \in [Threads -> Int] /\ ref \in Int
  BY DEF TypeOK, DataOK
<1>b. Owner \in Threads /\ Listener \in Threads /\ Conns \subseteq Threads
  BY DEF Threads
<1>c. \A c \in Conns : c # Owner /\ c # Listener
  BY SXServerAssumption
<1>1. ASSUME UNCHANGED <<pc, reg, ref, refLost, freed>> PROVE RefInv'
  BY <1>1 DEF RefInv, RefAccounting, Holders
<1>2. ASSUME NEW t \in Threads, SXReleaseLoad(t) PROVE RefInv'
  <2>1. CASE ref = Weak
    <3>1. /\ At(t, "release") /\ Goto(t, AfterRelease(t))
          /\ UNCHANGED <<ref, refLost, freed, reg>>
      BY <1>2, <2>1 DEF SXReleaseLoad, refVars
    <3>2. QED
      BY <1>a, <2>1, <3>1, QuietMove DEF AfterRelease, refVars
  <2>2. CASE ref # Weak
    <3>1. /\ At(t, "release") /\ Goto(t, "relStore")
          /\ reg' = [reg EXCEPT ![t] = ref] /\ UNCHANGED <<ref, refLost, freed>>
      BY <1>2, <2>2 DEF SXReleaseLoad, Ref!Load
    <3>2. Holders' = Holders
      BY <1>a, <3>1, HoldersMove DEF HoldingPc
    <3>3. (\A u \in Threads : pc[u] \in {"retStore", "relStore"} => reg[u] # Weak)'
      BY <1>a, <2>2, <3>1 DEF RefInv, PcOK
    <3>4. QED
      BY <1>a, <1>b, <1>c, <3>1, <3>2, <3>3 DEF RefInv, RefAccounting, PcOK
  <2>3. QED
    BY <2>1, <2>2
<1>3. ASSUME NEW t \in Threads, SXReleaseStore(t) PROVE RefInv'
  <2>1. /\ At(t, "relStore") /\ Goto(t, "relTest") /\ ~freed /\ ~freed'
        /\ ref' = reg[t] - 1 /\ refLost' = (refLost \/ ref # reg[t])
        /\ reg' = [reg EXCEPT ![t] = @ - 1]
    BY <1>3, <1>a DEF SXReleaseStore, Ref!StoreAndKeep, Ref!Overwrite
  <2>2. t \in Holders /\ Holders' = Holders \ {t}
    <3>1. "relStore" \in HoldingPc /\ "relTest" \notin HoldingPc
      BY DEF HoldingPc, LoopPc
    <3>2. QED
      BY <1>a, <2>1, <3>1, HoldersMove DEF Holders
  <2>3. Cardinality(Holders') = Cardinality(Holders) - 1
    BY <2>2, HoldersFinite, FS_RemoveElement
  <2>4. reg[t] # Weak
    BY <2>1 DEF RefInv
  <2>5. RefAccounting'
    BY <2>1, <2>3, <2>4, HoldersFinite DEF RefInv, RefAccounting
  <2>6. (\A u \in Threads : pc[u] \in {"retStore", "relStore"} => reg[u] # Weak)'
    BY <1>a, <2>1 DEF RefInv, PcOK
  <2>7. QED
    BY <1>a, <1>b, <1>c, <2>1, <2>5, <2>6 DEF RefInv, PcOK, Threads
<1>4. ASSUME NEW t \in Threads, SXReleaseTest(t) PROVE RefInv'
  <2>1. /\ At(t, "relTest") /\ ~freed /\ Goto(t, AfterRelease(t)) /\ UNCHANGED refVars
        /\ reg' = [reg EXCEPT ![t] = 0]
    BY <1>4 DEF SXReleaseTest
  <2>2. QED
    BY <1>a, <2>1, QuietMove DEF AfterRelease, HoldingPc, LoopPc
<1>5. CASE SXServerStart
  <2>1. /\ pc[Owner] = "created" /\ ref' = ref + 1 /\ UNCHANGED <<refLost, freed, reg>>
        /\ pc' = [pc EXCEPT ![Owner] = "started", ![Listener] = "start"]
    BY <1>5 DEF SXServerStart
  <2>2. ref = 1 /\ pc[Listener] = "off" /\ \A c \in Conns : pc[c] = "new"
    BY <2>1 DEF RefInv
  <2>3. Owner # Listener /\ Weak > 1
    BY SXServerAssumption
  <2>4. Holders = {Owner} /\ Holders' = {Owner, Listener}
    BY <1>a, <1>b, <1>c, <2>1, <2>2, <2>3 DEF Holders, HoldingPc, LoopPc, PcOK, Threads
  <2>5. Cardinality(Holders') = 2
    <3>1. IsFiniteSet({Owner}) /\ Cardinality({Owner}) = 1
      BY FS_Singleton
    <3>2. Cardinality({Owner} \cup {Listener}) = 2
      BY <2>3, <3>1, FS_AddElement
    <3>3. QED
      BY <2>4, <3>2
  <2>6. QED
    BY <1>a, <1>b, <1>c, <2>1, <2>2, <2>3, <2>5 DEF RefInv, RefAccounting, PcOK
<1>6. CASE OwnerRelease
  BY <1>6, <1>a, <1>b, QuietMove DEF OwnerRelease, HoldingPc
<1>7. CASE DidStart \/ While \/ Check \/ Guests \/ Stop \/ DidKill
  BY <1>7, <1>a, <1>b, QuietMove
  DEF DidStart, While, Check, Guests, Stop, DidKill, ListenerMoves, HoldingPc, LoopPc
<1>8. CASE IncLoad \/ IncStore
  <2>1. \A u \in Threads \ {Listener} : reg'[u] = reg[u]
    BY <1>8, <1>a DEF IncLoad, IncStore, Count!Load, Count!Store
  <2>2. QED
    BY <1>8, <1>a, <1>b, <2>1, QuietMove DEF IncLoad, IncStore, HoldingPc
<1>9. ASSUME NEW c \in Conns, Connect(c) PROVE RefInv'
  BY <1>9, <1>a, <1>b, QuietMove DEF Connect, HoldingPc, LoopPc
<1>10. ASSUME NEW c \in Conns, Accept(c) \/ Refuse(c) \/ AcceptFails(c) PROVE RefInv'
  <2>1. /\ pc[Listener] = "accept" /\ pc[c] = "backlog"
        /\ \E l \in {"while", "crashed"}, m \in {"queued", "refused", "closed"} :
               pc' = [pc EXCEPT ![Listener] = l, ![c] = m]
        /\ UNCHANGED <<ref, refLost, freed, reg>>
    BY <1>10 DEF Accept, Refuse, AcceptFails, ListenerMoves, refVars
  <2>2. Holders' = Holders
    BY <1>a, <1>b, <1>c, <2>1 DEF Holders, HoldingPc, LoopPc, PcOK
  <2>3. QED
    BY <1>a, <1>b, <1>c, <2>1, <2>2 DEF RefInv, RefAccounting, PcOK
<1>11. ASSUME NEW c \in Conns, WorkerStart(c) PROVE RefInv'
  <2>1. At(c, "queued") /\ UNCHANGED <<ref, refLost, freed>>
    BY <1>11 DEF WorkerStart, refVars, Ref!Load
  <2>2. CASE ref = Weak
    <3>1. Goto(c, "top") /\ UNCHANGED reg
      BY <1>11, <2>2 DEF WorkerStart
    <3>2. QED
      BY <1>a, <1>b, <2>1, <2>2, <3>1, QuietMove DEF refVars
  <2>3. CASE ref # Weak
    <3>1. Goto(c, "retStore") /\ reg' = [reg EXCEPT ![c] = ref]
      BY <1>11, <2>3 DEF WorkerStart, Ref!Load
    <3>2. Holders' = Holders
      <4>1. "queued" \notin HoldingPc /\ "retStore" \notin HoldingPc
        BY DEF HoldingPc, LoopPc
      <4>2. QED
        BY <1>a, <1>b, <2>1, <3>1, <4>1, HoldersMove
    <3>3. (\A u \in Threads : pc[u] \in {"retStore", "relStore"} => reg[u] # Weak)'
      BY <1>a, <1>b, <2>1, <2>3, <3>1 DEF RefInv, PcOK
    <3>4. QED
      BY <1>a, <1>b, <1>c, <2>1, <3>1, <3>2, <3>3 DEF RefInv, RefAccounting, PcOK
  <2>4. QED
    BY <2>2, <2>3
<1>12. ASSUME NEW c \in Conns, RetainStore(c) PROVE RefInv'
  <2>1. /\ At(c, "retStore") /\ Goto(c, "top") /\ ~freed /\ ~freed'
        /\ ref' = reg[c] + 1 /\ refLost' = (refLost \/ ref # reg[c])
        /\ reg' = [reg EXCEPT ![c] = 0]
    BY <1>12 DEF RetainStore, Ref!Store, Ref!Overwrite
  <2>2. c \notin Holders /\ Holders' = Holders \cup {c}
    BY <1>a, <1>b, <2>1, HoldersMove DEF HoldingPc, LoopPc, Holders
  <2>3. Cardinality(Holders') = Cardinality(Holders) + 1
    BY <2>2, HoldersFinite, FS_AddElement
  <2>4. reg[c] # Weak
    BY <1>b, <2>1 DEF RefInv
  <2>5. RefAccounting'
    BY <2>1, <2>3, <2>4, HoldersFinite DEF RefInv, RefAccounting
  <2>6. (\A u \in Threads : pc[u] \in {"retStore", "relStore"} => reg[u] # Weak)'
    BY <1>a, <1>b, <2>1 DEF RefInv, PcOK
  <2>7. QED
    BY <1>a, <1>b, <1>c, <2>1, <2>5, <2>6 DEF RefInv, PcOK
<1>13. ASSUME NEW c \in Conns, Top(c) \/ Switch(c) \/ Resume(c) PROVE RefInv'
  BY <1>13, <1>a, <1>b, QuietMove
  DEF Top, Switch, Resume, Branch, WorkerMoves, HoldingPc, LoopPc
<1>14. ASSUME NEW c \in Conns, Recv(c) \/ SuspendedRecv(c) PROVE RefInv'
  <2>1. PICK l \in {"data", "eof", "top", "close"} :
            Goto(c, l) /\ pc[c] \in {"recv", "srecv"} /\ UNCHANGED <<refVars, freed, reg>>
    BY <1>14 DEF Recv, SuspendedRecv, SuspendedTarget, WorkerMoves
  <2>2. l \in HoldingPc /\ pc[c] \in HoldingPc
    BY <2>1 DEF HoldingPc, LoopPc
  <2>3. QED
    BY <2>1, <2>2, <1>a, <1>b, QuietMove
<1>15. ASSUME NEW c \in Conns, HandlerReturns(c) \/ CloseSocket(c) PROVE RefInv'
  <2>1. PICK l \in {"top", "close", "release"} :
            Goto(c, l) /\ pc[c] \in {"data", "eof", "close"} /\ UNCHANGED <<refVars, freed, reg>>
    BY <1>15 DEF HandlerReturns, CloseSocket, WorkerMoves
  <2>2. l \in HoldingPc /\ pc[c] \in HoldingPc
    BY <2>1 DEF HoldingPc, LoopPc
  <2>3. QED
    BY <2>1, <2>2, <1>a, <1>b, QuietMove
<1>16. ASSUME NEW c \in Conns, Leave(c) \/ DecStore(c) PROVE RefInv'
  <2>1. \A u \in Threads \ {c} : reg'[u] = reg[u]
    BY <1>16, <1>a DEF Leave, DecStore, Count!Load, Count!Store
  <2>2. QED
    BY <1>16, <1>a, <1>b, <2>1, QuietMove DEF Leave, DecStore, HoldingPc, LoopPc
<1>17. CASE UNCHANGED vars
  BY <1>17, <1>1 DEF vars
<1>18. CASE StatusStore \/ SXKillServer \/ Terminate
  BY <1>18, <1>1 DEF StatusStore, SXKillServer, Terminate, refVars
<1>19. ASSUME NEW o \in Managed, SXSuspendObject(o) \/ SXResumeObject(o) PROVE RefInv'
  BY <1>19, <1>1 DEF SXSuspendObject, SXResumeObject, refVars
<1>20. ASSUME NEW c \in Conns, Send(c) \/ Hangup(c) PROVE RefInv'
  BY <1>20, <1>1 DEF Send, Hangup, refVars
<1>21. QED
  BY <1>2, <1>3, <1>4, <1>5, <1>6, <1>7, <1>8, <1>9, <1>10, <1>11, <1>12, <1>13, <1>14,
     <1>15, <1>16, <1>17, <1>18, <1>19, <1>20, NextCases

\* As long as no update of it was lost, the reference count of a server that is
\* not freed is the number of its holders, or has reached sx_weak_object.
THEOREM RefAccountingHolds == Spec => []RefAccounting
<1>1. TypeOK /\ RefInv /\ [Next]_vars => TypeOK' /\ RefInv'
  BY PcNext, FlagsNext, NetNext, DataNext, RefNext DEF TypeOK
<1>2. RefInv => RefAccounting
  BY DEF RefInv
<1>3. QED
  BY TypeInit, RefInit, <1>1, <1>2, PTL DEF Spec

LEMMA WeakNext ==
    ASSUME TypeOK, RefInv, Next, ref = Weak, ~refLost' PROVE ref' = Weak
<1> USE DEF refVars, ListenerMoves, WorkerMoves
<1>1. ASSUME NEW t \in Threads, SXReleaseStore(t) PROVE FALSE
  BY <1>1 DEF SXReleaseStore, RefInv, Ref!StoreAndKeep, Ref!Overwrite
<1>2. ASSUME NEW c \in Conns, RetainStore(c) PROVE FALSE
  BY <1>2 DEF RetainStore, RefInv, Ref!Store, Ref!Overwrite, Threads
<1>3. ASSUME SXServerStart PROVE FALSE
  BY <1>3, SXServerAssumption DEF SXServerStart, RefInv
<1>4. ASSUME NEW t \in Threads, SXReleaseLoad(t) \/ SXReleaseTest(t) PROVE ref' = Weak
  BY <1>4 DEF SXReleaseLoad, SXReleaseTest, Ref!Load
<1>5. ASSUME \/ StatusStore \/ SXKillServer \/ Terminate \/ OwnerRelease
             \/ \E o \in Managed : SXSuspendObject(o) \/ SXResumeObject(o)
             \/ DidStart \/ While \/ Check \/ Guests \/ IncLoad \/ IncStore \/ Stop \/ DidKill
      PROVE  ref' = Weak
  BY <1>5 DEF StatusStore, SXKillServer, Terminate, OwnerRelease, SXSuspendObject,
              SXResumeObject, DidStart, While, Check, Guests, IncLoad, IncStore, Stop, DidKill
<1>6. ASSUME NEW c \in Conns,
             \/ Connect(c) \/ Send(c) \/ Hangup(c) \/ Accept(c) \/ Refuse(c) \/ AcceptFails(c)
             \/ WorkerStart(c) \/ Top(c) \/ Switch(c) \/ Resume(c) \/ Recv(c)
             \/ SuspendedRecv(c) \/ HandlerReturns(c) \/ CloseSocket(c) \/ Leave(c) \/ DecStore(c)
      PROVE  ref' = Weak
  BY <1>6 DEF Connect, Send, Hangup, Accept, Refuse, AcceptFails, WorkerStart, Top, Switch,
              Resume, Recv, SuspendedRecv, HandlerReturns, CloseSocket, Leave, DecStore, Ref!Load
<1>7. QED
  BY <1>1, <1>2, <1>3, <1>4, <1>5, <1>6, NextCases

\* A reference count that has reached sx_weak_object stays there, in every step that
\* loses no update.
THEOREM WeakStickyHolds == Spec => WeakSticky
<1>1. TypeOK /\ RefInv /\ [Next]_vars => TypeOK' /\ RefInv'
  BY PcNext, FlagsNext, NetNext, DataNext, RefNext DEF TypeOK
<1>2. TypeOK /\ RefInv /\ [Next]_vars => [ref = Weak /\ ~refLost' => ref' = Weak]_vars
  BY WeakNext DEF TypeOK
<1>3. QED
  BY TypeInit, RefInit, <1>1, <1>2, PTL DEF Spec, WeakSticky

-----------------------------------------------------------------------------
(* The server stays allocated while nothing ends the accept loop.          *)

\* The accept loop's own reference keeps the count from 0.
LEMMA RefPositive ==
    PcOK /\ RefInv /\ AliveInv /\ ~refLost /\ ~freed => ref # 0
<1> SUFFICES ASSUME PcOK, RefInv, AliveInv, ~refLost, ~freed PROVE ref # 0
  OBVIOUS
<1>1. CASE pc[Listener] = "off"
  BY <1>1 DEF RefInv
<1>2. CASE pc[Listener] # "off"
  <2>1. Listener \in Holders
    BY <1>2 DEF PcOK, AliveInv, Holders, HoldingPc, ListenerPc, ReleasePc, Threads
  <2>2. Cardinality(Holders) # 0
    BY <2>1, HoldersFinite, FS_EmptySet
  <2>3. Weak # 0
    BY SXServerAssumption
  <2>4. QED
    BY <2>2, <2>3 DEF RefInv, RefAccounting
<1>3. QED
  BY <1>1, <1>2

LEMMA AliveInit == Init => AliveInv
  BY SXServerAssumption DEF Init, AliveInv, ReleasePc, Threads

\* No status word becomes should_terminate.
LEMMA StatusNext ==
    ASSUME "terminate" \notin Allowed, TypeOK, AliveInv, [Next]_vars
    PROVE  (\A o \in Objects : stat[o] # ShouldTerminate)'
<1> DEFINE P == \A o \in Objects : stat[o] # ShouldTerminate
<1> USE DEF ListenerMoves, WorkerMoves
<1>0. P /\ stat \in [Objects -> Status] /\ Conns \subseteq Objects /\ Server \in Objects
  BY DEF AliveInv, TypeOK, DataOK, Objects
<1>1. CASE UNCHANGED stat
  BY <1>0, <1>1
<1>2. CASE StatusStore
  <2>1. app \in Objects \X {Suspend, Resuming} /\ stat' = [stat EXCEPT ![app[1]] = app[2]]
    BY <1>2 DEF StatusStore, TypeOK, DataOK
  <2>2. QED
    BY <1>0, <2>1
<1>3. CASE DidStart \/ Stop
  BY <1>0, <1>3 DEF DidStart, Stop
<1>4. ASSUME NEW c \in Conns, WorkerStart(c) \/ Top(c) \/ Resume(c) PROVE P'
  BY <1>0, <1>4 DEF WorkerStart, Top, Resume
<1>5. CASE UNCHANGED vars
  BY <1>5, <1>1 DEF vars
<1>6. ASSUME NEW t \in Threads, SXReleaseLoad(t) \/ SXReleaseStore(t) \/ SXReleaseTest(t)
      PROVE  P'
  BY <1>1, <1>6 DEF SXReleaseLoad, SXReleaseStore, SXReleaseTest
<1>7. CASE \/ SXServerStart \/ SXKillServer \/ Terminate \/ OwnerRelease
           \/ \E o \in Managed : SXSuspendObject(o) \/ SXResumeObject(o)
           \/ While \/ Check \/ Guests \/ IncLoad \/ IncStore \/ DidKill
  BY <1>1, <1>7 DEF SXServerStart, SXKillServer, Terminate, OwnerRelease, SXSuspendObject,
                    SXResumeObject, While, Check, Guests, IncLoad, IncStore, DidKill
<1>8. ASSUME NEW c \in Conns,
             \/ Connect(c) \/ Send(c) \/ Hangup(c) \/ Accept(c) \/ Refuse(c) \/ AcceptFails(c)
             \/ RetainStore(c) \/ Switch(c) \/ Recv(c) \/ SuspendedRecv(c)
             \/ HandlerReturns(c) \/ CloseSocket(c) \/ Leave(c) \/ DecStore(c)
      PROVE  P'
  BY <1>1, <1>8 DEF Connect, Send, Hangup, Accept, Refuse, AcceptFails, RetainStore, Switch,
                    Recv, SuspendedRecv, HandlerReturns, CloseSocket, Leave, DecStore
<1>9. QED
  BY <1>2, <1>3, <1>4, <1>5, <1>6, <1>7, <1>8, NextCases

\* The accept loop does not leave its loop.
LEMMA ListenerNext ==
    ASSUME TypeOK, RefInv, AliveInv, [Next]_vars
    PROVE  (pc[Listener] \notin {"stop", "didKill", "done"} \cup ReleasePc)'
<1> DEFINE P == pc[Listener] \notin {"stop", "didKill", "done"} \cup ReleasePc
<1> USE DEF ReleasePc
<1>0. /\ P /\ PcOK /\ stat[Server] # ShouldTerminate
      /\ Listener \in Threads /\ Listener # Owner /\ \A c \in Conns : c # Listener
  BY SXServerAssumption DEF AliveInv, TypeOK, Threads, Objects
<1>1. ASSUME UNCHANGED pc PROVE P'
  BY <1>0, <1>1
<1>2. ASSUME NEW t \in Threads, NEW l, Goto(t, l), t # Listener PROVE P'
  BY <1>0, <1>2 DEF PcOK
<1>3. ASSUME NEW t \in Threads, SXReleaseLoad(t) \/ SXReleaseStore(t) \/ SXReleaseTest(t)
      PROVE  P'
  <2>1. t # Listener
    BY <1>0, <1>3 DEF SXReleaseLoad, SXReleaseStore, SXReleaseTest
  <2>2. QED
    BY <1>2, <1>3, <2>1 DEF SXReleaseLoad, SXReleaseStore, SXReleaseTest
<1>4. CASE SXServerStart
  BY <1>0, <1>4 DEF SXServerStart, PcOK
<1>5. CASE OwnerRelease
  BY <1>0, <1>2, <1>5 DEF OwnerRelease, Threads
<1>6. CASE DidStart \/ While \/ Check \/ Guests \/ IncLoad \/ IncStore \/ Stop \/ DidKill
  BY <1>0, <1>6 DEF DidStart, While, Check, Guests, IncLoad, IncStore, Stop, DidKill, PcOK
<1>7. ASSUME NEW c \in Conns, Accept(c) \/ Refuse(c) \/ AcceptFails(c) PROVE P'
  BY <1>0, <1>7 DEF Accept, Refuse, AcceptFails, PcOK
<1>8. ASSUME NEW c \in Conns,
             \/ Connect(c) \/ WorkerStart(c) \/ RetainStore(c) \/ Top(c) \/ Switch(c)
             \/ Resume(c) \/ Recv(c) \/ SuspendedRecv(c) \/ HandlerReturns(c)
             \/ CloseSocket(c) \/ Leave(c) \/ DecStore(c)
      PROVE  P'
  <2>1. \E l : Goto(c, l)
    BY <1>8 DEF Connect, WorkerStart, RetainStore, Top, Switch, Resume, Recv,
                SuspendedRecv, HandlerReturns, CloseSocket, Leave, DecStore
  <2>2. QED
    BY <1>0, <1>2, <2>1 DEF Threads
<1>9. CASE UNCHANGED vars
  BY <1>9, <1>1 DEF vars
<1>10. CASE StatusStore \/ SXKillServer \/ Terminate
  BY <1>10, <1>1 DEF StatusStore, SXKillServer, Terminate
<1>11. ASSUME NEW o \in Managed, SXSuspendObject(o) \/ SXResumeObject(o) PROVE P'
  BY <1>11, <1>1 DEF SXSuspendObject, SXResumeObject
<1>12. ASSUME NEW c \in Conns, Send(c) \/ Hangup(c) PROVE P'
  BY <1>12, <1>1 DEF Send, Hangup
<1>13. QED
  BY <1>3, <1>4, <1>5, <1>6, <1>7, <1>8, <1>9, <1>10, <1>11, <1>12, NextCases

\* While the counting is exact, no release sees 0 and nothing is freed.
LEMMA AliveNext ==
    ASSUME "terminate" \notin Allowed, TypeOK, RefInv, AliveInv, [Next]_vars
    PROVE  AliveInv'
<1> DEFINE Unfreed == ~freed /\ \A t \in Threads : pc[t] = "relTest" => reg[t] # 0
           P == ~refLost => Unfreed
<1>0. P /\ PcOK /\ ref \in Int /\ reg \in [Threads -> Int] /\ Conns \subseteq Threads
      /\ Listener \in Threads /\ Owner \in Threads /\ \A c \in Conns : c # Owner /\ c # Listener
  BY SXServerAssumption DEF AliveInv, TypeOK, DataOK, Threads
<1>1. TypeOK' /\ RefInv'
  BY PcNext, FlagsNext, NetNext, DataNext, RefNext DEF TypeOK
\* Most steps leave the counters and the threads at relTest alone.
<1>2. ASSUME UNCHANGED <<refLost, freed>>,
             \A t \in Threads : pc'[t] = "relTest" => pc[t] = "relTest" /\ reg'[t] = reg[t]
      PROVE  P'
  BY <1>0, <1>2
<1>3. ASSUME NEW t \in Threads, NEW l, Goto(t, l), l # "relTest", UNCHANGED <<refLost, freed>>,
             \A u \in Threads \ {t} : reg'[u] = reg[u]
      PROVE  P'
  BY <1>0, <1>2, <1>3 DEF PcOK
<1>4. ASSUME NEW t \in Threads, SXReleaseLoad(t) PROVE P'
  <2>1. \E l \in {"gone", "didKill", "leave", "relStore"} : Goto(t, l)
    BY <1>4 DEF SXReleaseLoad, AfterRelease
  <2>2. UNCHANGED <<refLost, freed>> /\ \A u \in Threads \ {t} : reg'[u] = reg[u]
    BY <1>0, <1>4 DEF SXReleaseLoad, refVars, Ref!Load
  <2>3. QED
    BY <1>3, <2>1, <2>2
<1>5. ASSUME NEW t \in Threads, SXReleaseStore(t), ~refLost' PROVE Unfreed'
  <2>1. /\ Goto(t, "relTest") /\ ~freed' /\ ~refLost /\ ref = reg[t] /\ ref' = ref - 1
        /\ reg' = [reg EXCEPT ![t] = @ - 1]
    BY <1>0, <1>5 DEF SXReleaseStore, Ref!StoreAndKeep, Ref!Overwrite
  <2>2. AliveInv
    OBVIOUS
  <2>3. PcOK' /\ RefInv' /\ (pc[Listener] \notin {"stop", "didKill", "done"} \cup ReleasePc)'
    BY <1>1, ListenerNext DEF TypeOK
  <2>4. ref' # 0
    <3>1. CASE pc'[Listener] = "off"
      BY <2>3, <3>1 DEF RefInv
    <3>2. CASE pc'[Listener] # "off"
      <4>1. Listener \in Holders'
        BY <2>3, <3>2 DEF PcOK, Holders, HoldingPc, ListenerPc, ReleasePc, Threads
      <4>2. IsFiniteSet(Holders')
        <5>1. Goto(t, "relTest") /\ PcOK
          BY <1>0, <2>1
        <5>2. Holders' = Holders \ {t} \/ Holders' = Holders \cup {t}
          BY <5>1, HoldersMove
        <5>3. QED
          BY <5>2, HoldersFinite, FS_AddElement, FS_RemoveElement
      <4>3. Cardinality(Holders') # 0
        BY <4>1, <4>2, FS_EmptySet
      <4>4. Weak # 0
        BY SXServerAssumption
      <4>5. QED
        BY <1>5, <2>1, <2>3, <4>3, <4>4 DEF RefInv, RefAccounting
    <3>3. QED
      BY <3>1, <3>2
  <2>5. QED
    BY <1>0, <2>1, <2>4 DEF PcOK
<1>6. ASSUME NEW t \in Threads, SXReleaseTest(t) PROVE P'
  <2>1. /\ pc[t] = "relTest" /\ Goto(t, AfterRelease(t)) /\ UNCHANGED refLost /\ ~freed
        /\ (freed' <=> (ref = 0)) \/ (freed' <=> (reg[t] = 0))
        /\ reg' = [reg EXCEPT ![t] = 0]
    BY <1>6 DEF SXReleaseTest, Frees, refVars
  <2>2. AfterRelease(t) # "relTest"
    BY DEF AfterRelease
  <2>3. ASSUME ~refLost' PROVE ref # 0 /\ reg[t] # 0
    BY <1>0, <2>1, <2>3, RefPositive
  <2>4. ASSUME ~refLost' PROVE ~freed'
    BY <2>1, <2>3, <2>4
  <2>5. \A u \in Threads : pc'[u] = "relTest" => u # t /\ pc[u] = "relTest" /\ reg'[u] = reg[u]
    BY <1>0, <2>1, <2>2 DEF PcOK
  <2>6. ASSUME ~refLost', NEW u \in Threads, pc'[u] = "relTest" PROVE reg'[u] # 0
    BY <1>0, <2>1, <2>5, <2>6
  <2>7. QED
    BY <2>4, <2>6
<1>t. /\ PcOK /\ Conns \subseteq Threads /\ Listener \in Threads /\ Owner \in Threads
      /\ \A c \in Conns : c # Owner /\ c # Listener
  BY <1>0
<1>16. ASSUME UNCHANGED <<pc, reg, refLost, freed>> PROVE P'
  BY <1>2, <1>16
<1> HIDE DEF P, Unfreed
<1>7. ASSUME SXServerStart PROVE P'
  <2>1. UNCHANGED <<refLost, freed>> /\ UNCHANGED reg
        /\ pc' = [pc EXCEPT ![Owner] = "started", ![Listener] = "start"]
    BY <1>7 DEF SXServerStart
  <2>2. \A u \in Threads : pc'[u] = "relTest" => pc[u] = "relTest" /\ reg'[u] = reg[u]
    BY <1>t, <2>1 DEF PcOK
  <2>3. QED
    BY <1>2, <2>1, <2>2
<1>8. ASSUME OwnerRelease PROVE P'
  <2>1. Goto(Owner, "release") /\ UNCHANGED <<refLost, freed>> /\ UNCHANGED reg
    BY <1>8 DEF OwnerRelease, refVars
  <2>2. QED
    BY <1>t, <1>3, <2>1
<1>9. ASSUME DidStart \/ While \/ Check \/ Guests \/ Stop \/ DidKill PROVE P'
  <2>1. (\E l : Goto(Listener, l) /\ l # "relTest") /\ UNCHANGED <<refLost, freed>>
        /\ \A u \in Threads : reg'[u] = reg[u]
    BY <1>9 DEF DidStart, While, Check, Guests, Stop, DidKill, ListenerMoves, refVars
  <2>2. QED
    BY <1>t, <1>3, <2>1
<1>10. ASSUME IncLoad \/ IncStore PROVE P'
  <2>1. (\E l : Goto(Listener, l) /\ l # "relTest") /\ UNCHANGED <<refLost, freed>>
        /\ \A u \in Threads \ {Listener} : reg'[u] = reg[u]
    BY <1>0, <1>10 DEF IncLoad, IncStore, Count!Load, Count!Store, refVars
  <2>2. QED
    BY <1>t, <1>3, <2>1
<1>11. ASSUME NEW c \in Conns, Accept(c) \/ Refuse(c) \/ AcceptFails(c) PROVE P'
  <2>1. UNCHANGED <<refLost, freed>> /\ UNCHANGED reg
        /\ \E l \in {"while", "crashed"}, m \in {"queued", "refused", "closed"} :
               pc' = [pc EXCEPT ![Listener] = l, ![c] = m]
    BY <1>11 DEF Accept, Refuse, AcceptFails, ListenerMoves, refVars
  <2>2. \A u \in Threads : pc'[u] = "relTest" => pc[u] = "relTest" /\ reg'[u] = reg[u]
    BY <1>t, <2>1 DEF PcOK
  <2>3. QED
    BY <1>2, <2>1, <2>2
<1>12. ASSUME NEW c \in Conns, WorkerStart(c) PROVE P'
  <2>1. (\E l : Goto(c, l) /\ l # "relTest") /\ UNCHANGED <<refLost, freed>>
        /\ \A u \in Threads \ {c} : reg'[u] = reg[u]
    BY <1>0, <1>12 DEF WorkerStart, refVars, Ref!Load
  <2>2. QED
    BY <1>t, <1>3, <2>1
<1>13. ASSUME NEW c \in Conns, RetainStore(c) PROVE P'
  <2>1. Goto(c, "top") /\ \A u \in Threads \ {c} : reg'[u] = reg[u]
    BY <1>0, <1>13 DEF RetainStore, Ref!Store
  <2>2. ~freed' /\ (refLost => refLost')
    BY <1>13 DEF RetainStore, Ref!Store, Ref!Overwrite
  <2>3. \A u \in Threads : pc'[u] = "relTest" => pc[u] = "relTest" /\ reg'[u] = reg[u]
    BY <1>t, <2>1 DEF PcOK
  <2>4. QED
    BY <1>0, <2>2, <2>3 DEF P, Unfreed
<1>14. ASSUME NEW c \in Conns,
              \/ Connect(c) \/ Top(c) \/ Switch(c) \/ Resume(c) \/ Recv(c) \/ SuspendedRecv(c)
              \/ HandlerReturns(c) \/ CloseSocket(c)
       PROVE  P'
  <2>1. \E l : Goto(c, l) /\ l # "relTest"
    BY <1>14 DEF Connect, Top, Switch, Branch, Resume, Recv, SuspendedRecv, SuspendedTarget,
                 HandlerReturns, CloseSocket
  <2>2. UNCHANGED <<refLost, freed>> /\ \A u \in Threads : reg'[u] = reg[u]
    BY <1>14 DEF Connect, Top, Switch, Resume, Recv, SuspendedRecv, HandlerReturns,
                 CloseSocket, WorkerMoves, refVars
  <2>3. QED
    BY <1>t, <1>3, <2>1, <2>2
<1>15. ASSUME NEW c \in Conns, Leave(c) \/ DecStore(c) PROVE P'
  <2>1. (\E l : Goto(c, l) /\ l # "relTest") /\ UNCHANGED <<refLost, freed>>
        /\ \A u \in Threads \ {c} : reg'[u] = reg[u]
    BY <1>0, <1>15 DEF Leave, DecStore, Count!Load, Count!Store, refVars
  <2>2. QED
    BY <1>t, <1>3, <2>1
<1>17. ASSUME UNCHANGED vars PROVE P'
  BY <1>16, <1>17 DEF vars
<1>18. ASSUME StatusStore \/ SXKillServer \/ Terminate PROVE P'
  BY <1>16, <1>18 DEF StatusStore, SXKillServer, Terminate, refVars
<1>19. ASSUME NEW o \in Managed, SXSuspendObject(o) \/ SXResumeObject(o) PROVE P'
  BY <1>16, <1>19 DEF SXSuspendObject, SXResumeObject, refVars
<1>20. ASSUME NEW c \in Conns, Send(c) \/ Hangup(c) PROVE P'
  BY <1>16, <1>20 DEF Send, Hangup, refVars
<1>21. P'
  <2>1. ASSUME NEW t \in Threads, SXReleaseStore(t) PROVE P'
    BY <1>5, <2>1 DEF P
  <2>2. QED
    BY <1>4, <2>1, <1>6, <1>7, <1>8, <1>9, <1>10, <1>11, <1>12, <1>13, <1>14, <1>15, <1>17,
       <1>18, <1>19, <1>20, NextCases
<1>22. QED
  BY <1>21, StatusNext, ListenerNext DEF AliveInv, P, Unfreed

\* A server whose accept loop nothing ends is not freed, by whatever the owner and
\* any number of connections release, as long as no update of the count is lost.
THEOREM ServerAliveHolds == ASSUME "terminate" \notin Allowed PROVE Spec => []ServerAlive
<1>1. Init => TypeOK /\ RefInv /\ AliveInv
  BY TypeInit, RefInit, AliveInit
<1>2. TypeOK /\ RefInv /\ AliveInv /\ [Next]_vars => TypeOK' /\ RefInv' /\ AliveInv'
  BY PcNext, FlagsNext, NetNext, DataNext, RefNext, AliveNext DEF TypeOK
<1>3. AliveInv => ServerAlive
  BY DEF AliveInv, ServerAlive
<1>4. QED
  BY <1>1, <1>2, <1>3, PTL DEF Spec

-----------------------------------------------------------------------------
(* The guest slots.                                                        *)

LEMMA SlotHoldersFinite == IsFiniteSet(SlotHolders) /\ Cardinality(SlotHolders) \in Nat
<1>1. IsFiniteSet(Conns \cup {Listener})
  BY SXServerAssumption, FS_AddElement
<1>2. SlotHolders \subseteq Conns \cup {Listener}
  BY DEF SlotHolders
<1>3. QED
  BY <1>1, <1>2, FS_Subset, FS_CardinalityType

\* A step that moves no thread into or out of the slots.
LEMMA SlotQuiet ==
    ASSUME SlotInv, SlotHolders' = SlotHolders, UNCHANGED <<count, countLost, leaked>>,
           pc'[Listener] \in {"inc", "incStore"} => pc[Listener] \in {"inc", "incStore"}
    PROVE  SlotInv'
  BY DEF SlotInv, SlotAccounting, GuestLimit

\* One connection's move, the listener aside.
LEMMA SlotMove ==
    ASSUME PcOK, NEW c \in Conns, NEW l, Goto(c, l)
    PROVE  /\ pc'[Listener] = pc[Listener]
           /\ (l \in Done <=> pc[c] \in Done) => SlotHolders' = SlotHolders
           /\ l \in Done => SlotHolders' = SlotHolders \ {c}
  BY SXServerAssumption DEF PcOK, SlotHolders, Threads

\* A move of the listener that neither takes a slot nor hands one over.
LEMMA SlotListener ==
    ASSUME PcOK, NEW l, Goto(Listener, l)
    PROVE  /\ pc'[Listener] = l
           /\ (l = "accept" <=> pc[Listener] = "accept") => SlotHolders' = SlotHolders
           /\ l = "accept" => SlotHolders' = SlotHolders \cup {Listener}
  BY SXServerAssumption DEF PcOK, SlotHolders, Threads

LEMMA SlotInit == Init => SlotInv
<1> SUFFICES ASSUME Init PROVE SlotInv
  OBVIOUS
<1>1. SlotHolders = {}
  BY SXServerAssumption DEF Init, SlotHolders, Done, Threads
<1>2. Cardinality(SlotHolders) = 0
  BY <1>1, FS_EmptySet
<1>3. QED
  BY <1>2, SXServerAssumption DEF Init, SlotInv, SlotAccounting, GuestLimit, Threads

LEMMA SlotNext == TypeOK /\ RefInv /\ SlotInv /\ [Next]_vars => SlotInv'
<1> SUFFICES ASSUME TypeOK, RefInv, SlotInv, [Next]_vars PROVE SlotInv'
  OBVIOUS
<1>a. PcOK /\ reg \in [Threads -> Int] /\ count \in Int /\ leaked \in Nat /\ MaxGuest \in Nat
  BY SXServerAssumption DEF TypeOK, DataOK
<1>b. Owner \in Threads /\ Listener \in Threads /\ Conns \subseteq Threads
  BY DEF Threads
<1>c. Owner # Listener /\ \A c \in Conns : c # Owner /\ c # Listener
  BY SXServerAssumption
<1>1. ASSUME UNCHANGED <<pc, count, countLost, leaked>> PROVE SlotInv'
  BY <1>1, SlotQuiet DEF SlotHolders
<1>2. ASSUME NEW t \in Threads, SXReleaseLoad(t) \/ SXReleaseStore(t) \/ SXReleaseTest(t)
      PROVE  SlotInv'
  <2>1. /\ pc[t] \in ReleasePc /\ UNCHANGED <<count, countLost, leaked>>
        /\ \/ Goto(t, AfterRelease(t)) \/ Goto(t, "relStore") \/ Goto(t, "relTest")
    BY <1>2 DEF SXReleaseLoad, SXReleaseStore, SXReleaseTest, ReleasePc, countVars
  <2>2. CASE t = Owner
    BY <1>a, <1>b, <1>c, <2>1, <2>2, SlotQuiet DEF SlotHolders, PcOK
  <2>3. CASE t = Listener
    BY <1>a, <2>1, <2>3, SlotQuiet, SlotListener, <1>c DEF AfterRelease, ReleasePc
  <2>4. CASE t \in Conns
    BY <1>a, <1>c, <2>1, <2>4, SlotQuiet, SlotMove DEF AfterRelease, ReleasePc, Done
  <2>5. QED
    BY <2>2, <2>3, <2>4 DEF Threads
<1>3. CASE SXServerStart
  <2>1. /\ UNCHANGED <<count, countLost, leaked>>
        /\ pc' = [pc EXCEPT ![Owner] = "started", ![Listener] = "start"]
    BY <1>3 DEF SXServerStart, countVars
  <2>2. pc[Listener] = "off"
    BY <1>3 DEF SXServerStart, RefInv
  <2>3. SlotHolders' = SlotHolders /\ pc'[Listener] = "start"
    BY <1>a, <1>b, <1>c, <2>1, <2>2 DEF SlotHolders, PcOK
  <2>4. QED
    BY <2>1, <2>3, SlotQuiet
<1>4. CASE OwnerRelease
  <2>1. Goto(Owner, "release") /\ UNCHANGED <<count, countLost, leaked>>
    BY <1>4 DEF OwnerRelease, countVars
  <2>2. SlotHolders' = SlotHolders /\ pc'[Listener] = pc[Listener]
    BY <1>a, <1>b, <1>c, <2>1 DEF SlotHolders, PcOK
  <2>3. QED
    BY <2>1, <2>2, SlotQuiet
<1>5. CASE DidStart \/ While \/ Check \/ Stop \/ DidKill
  <2>1. /\ UNCHANGED <<count, countLost, leaked>> /\ pc[Listener] # "accept"
        /\ \E l \in {"while", "stop", "check", "guests", "release", "done"} : Goto(Listener, l)
    BY <1>5 DEF DidStart, While, Check, Stop, DidKill, ListenerMoves, countVars
  <2>2. QED
    BY <1>a, <2>1, SlotListener, SlotQuiet
<1>6. CASE Guests
  <2>1. /\ UNCHANGED <<count, countLost, leaked>> /\ pc[Listener] = "guests"
        /\ Goto(Listener, IF CountFull THEN "while" ELSE "inc")
    BY <1>6 DEF Guests, ListenerMoves, countVars
  <2>2. SlotHolders' = SlotHolders /\ pc'[Listener] = IF CountFull THEN "while" ELSE "inc"
    BY <1>a, <2>1, SlotListener
  <2>3. CASE CountFull
    BY <2>1, <2>2, <2>3, SlotQuiet
  <2>4. CASE ~CountFull
    <3>1. ~countLost => Cardinality(SlotHolders) + leaked < MaxGuest
      BY <1>a, <2>4, SlotHoldersFinite DEF CountFull, SlotInv, SlotAccounting
    <3>2. QED
      BY <2>1, <2>2, <3>1 DEF SlotInv, SlotAccounting, GuestLimit
  <2>5. QED
    BY <2>3, <2>4
<1>7. CASE IncLoad
  <2>1. /\ UNCHANGED <<count, countLost, leaked>> /\ pc[Listener] = "inc"
        /\ Goto(Listener, "incStore")
    BY <1>7 DEF IncLoad, Count!Load
  <2>2. QED
    BY <1>a, <2>1, SlotListener, SlotQuiet
<1>8. CASE IncStore
  <2>1. /\ Goto(Listener, "accept") /\ pc[Listener] = "incStore" /\ UNCHANGED leaked
        /\ count' = reg[Listener] + 1
    BY <1>8 DEF IncStore, Count!Store, Count!Overwrite
  <2>2. ~countLost' => ~countLost /\ count = reg[Listener]
    BY <1>8 DEF IncStore, Count!Store, Count!Overwrite
  <2>3. /\ Listener \notin SlotHolders /\ SlotHolders' = SlotHolders \cup {Listener}
        /\ pc'[Listener] = "accept"
    BY <1>a, <1>c, <2>1, SlotListener DEF SlotHolders
  <2>4. Cardinality(SlotHolders') = Cardinality(SlotHolders) + 1
    BY <2>3, SlotHoldersFinite, FS_AddElement
  <2>5. QED
    BY <1>a, <2>1, <2>2, <2>3, <2>4, SlotHoldersFinite DEF SlotInv, SlotAccounting, GuestLimit
\* The listener hands its slot to the connection ...
<1>9. ASSUME NEW c \in Conns, Accept(c) PROVE SlotInv'
  <2>1. /\ UNCHANGED <<count, countLost, leaked>> /\ pc[Listener] = "accept" /\ pc[c] = "backlog"
        /\ pc' = [pc EXCEPT ![Listener] = "while", ![c] = "queued"]
    BY <1>9 DEF Accept, ListenerMoves, countVars
  <2>2. /\ Listener \in SlotHolders /\ c \notin SlotHolders
        /\ SlotHolders' = (SlotHolders \ {Listener}) \cup {c} /\ pc'[Listener] = "while"
    BY <1>a, <1>b, <1>c, <2>1 DEF SlotHolders, PcOK, Done
  <2>3. /\ IsFiniteSet(SlotHolders \ {Listener})
        /\ Cardinality(SlotHolders \ {Listener}) = Cardinality(SlotHolders) - 1
    BY <2>2, SlotHoldersFinite, FS_RemoveElement
  <2>4. Cardinality(SlotHolders') = Cardinality(SlotHolders)
    <3>1. c \notin SlotHolders \ {Listener}
      BY <2>2
    <3>2. Cardinality((SlotHolders \ {Listener}) \cup {c}) = Cardinality(SlotHolders \ {Listener}) + 1
      BY <2>3, <3>1, FS_AddElement
    <3>3. QED
      BY <2>2, <2>3, <3>2, SlotHoldersFinite
  <2>5. QED
    BY <2>1, <2>2, <2>4 DEF SlotInv, SlotAccounting, GuestLimit
\* ... or leaks it.
<1>10. ASSUME NEW c \in Conns, Refuse(c) \/ AcceptFails(c) PROVE SlotInv'
  <2>1. /\ UNCHANGED <<count, countLost>> /\ leaked' = leaked + 1
        /\ pc[Listener] = "accept" /\ pc[c] = "backlog"
        /\ \E l \in {"while", "crashed"}, m \in {"refused", "closed"} :
               pc' = [pc EXCEPT ![Listener] = l, ![c] = m]
    BY <1>10 DEF Refuse, AcceptFails, countVars
  <2>2. /\ Listener \in SlotHolders /\ SlotHolders' = SlotHolders \ {Listener}
        /\ pc'[Listener] \notin {"inc", "incStore"}
    BY <1>a, <1>b, <1>c, <2>1 DEF SlotHolders, PcOK, Done
  <2>3. Cardinality(SlotHolders') = Cardinality(SlotHolders) - 1
    BY <2>2, SlotHoldersFinite, FS_RemoveElement
  <2>4. QED
    BY <1>a, <2>1, <2>2, <2>3, SlotHoldersFinite DEF SlotInv, SlotAccounting, GuestLimit
<1>11. ASSUME NEW c \in Conns,
              \/ Connect(c) \/ WorkerStart(c) \/ RetainStore(c) \/ Top(c) \/ Switch(c)
              \/ Resume(c) \/ Recv(c) \/ SuspendedRecv(c) \/ HandlerReturns(c)
              \/ CloseSocket(c) \/ Leave(c)
       PROVE  SlotInv'
  <2>1. \E l : Goto(c, l) /\ (l \in Done <=> pc[c] \in Done)
    <3>1. CASE Connect(c) \/ WorkerStart(c) \/ RetainStore(c) \/ Top(c) \/ Resume(c)
      BY <3>1 DEF Connect, WorkerStart, RetainStore, Top, Resume, Done
    <3>2. CASE Switch(c)
      <4>1. Branch(stat[c]) \notin Done
        BY DEF Branch, Done
      <4>2. QED
        BY <3>2, <4>1 DEF Switch, Done
    <3>3. CASE Recv(c) \/ SuspendedRecv(c)
      <4>1. \E l \in {"data", "eof", "top", "close"} : Goto(c, l) /\ pc[c] \in {"recv", "srecv"}
        BY <3>3 DEF Recv, SuspendedRecv, SuspendedTarget
      <4>2. QED
        BY <4>1 DEF Done
    <3>4. CASE HandlerReturns(c) \/ CloseSocket(c) \/ Leave(c)
      BY <3>4 DEF HandlerReturns, CloseSocket, Leave, Done
    <3>5. QED
      BY <1>11, <3>1, <3>2, <3>3, <3>4
  <2>2. UNCHANGED <<count, countLost, leaked>>
    BY <1>11 DEF Connect, WorkerStart, RetainStore, Top, Switch, Resume, Recv, SuspendedRecv,
                 HandlerReturns, CloseSocket, Leave, Count!Load, WorkerMoves, countVars
  <2>3. QED
    BY <1>a, <2>1, <2>2, SlotMove, SlotQuiet
<1>12. ASSUME NEW c \in Conns, DecStore(c) PROVE SlotInv'
  <2>1. Goto(c, "closed") /\ pc[c] = "decStore" /\ UNCHANGED leaked /\ count' = reg[c] - 1
    BY <1>a, <1>12 DEF DecStore, Count!Store, Count!Overwrite
  <2>2. ~countLost' => ~countLost /\ count = reg[c]
    BY <1>12 DEF DecStore, Count!Store, Count!Overwrite
  <2>3. /\ c \in SlotHolders /\ SlotHolders' = SlotHolders \ {c}
        /\ pc'[Listener] = pc[Listener]
    BY <1>a, <2>1, SlotMove DEF SlotHolders, Done
  <2>4. Cardinality(SlotHolders') = Cardinality(SlotHolders) - 1
    BY <2>3, SlotHoldersFinite, FS_RemoveElement
  <2>5. QED
    BY <1>a, <2>1, <2>2, <2>3, <2>4, SlotHoldersFinite DEF SlotInv, SlotAccounting, GuestLimit
<1>13. CASE UNCHANGED vars
  BY <1>13, <1>1 DEF vars
<1>14. CASE StatusStore \/ SXKillServer \/ Terminate
  BY <1>14, <1>1 DEF StatusStore, SXKillServer, Terminate, countVars
<1>15. ASSUME NEW o \in Managed, SXSuspendObject(o) \/ SXResumeObject(o) PROVE SlotInv'
  BY <1>15, <1>1 DEF SXSuspendObject, SXResumeObject, countVars
<1>16. ASSUME NEW c \in Conns, Send(c) \/ Hangup(c) PROVE SlotInv'
  BY <1>16, <1>1 DEF Send, Hangup, countVars
<1>17. QED
  BY <1>2, <1>3, <1>4, <1>5, <1>6, <1>7, <1>8, <1>9, <1>10, <1>11, <1>12, <1>13, <1>14,
     <1>15, <1>16, NextCases

LEMMA SlotInvariant == Spec => []SlotInv
<1>1. Init => TypeOK /\ RefInv /\ SlotInv
  BY TypeInit, RefInit, SlotInit
<1>2. TypeOK /\ RefInv /\ SlotInv /\ [Next]_vars => TypeOK' /\ RefInv' /\ SlotInv'
  BY PcNext, FlagsNext, NetNext, DataNext, RefNext, SlotNext DEF TypeOK
<1>3. QED
  BY <1>1, <1>2, PTL DEF Spec

\* As long as no update of count is lost, it is the number of slots in use plus the
\* slots that refusals and failed accepts have leaked.
THEOREM SlotAccountingHolds == Spec => []SlotAccounting
<1>1. SlotInv => SlotAccounting
  BY DEF SlotInv
<1>2. QED
  BY SlotInvariant, <1>1, PTL

\* As long as no update of count is lost, no more than max_guest connections are
\* served at once, for every max_guest and every number of connections.
THEOREM GuestLimitHolds == Spec => []GuestLimit
<1>1. SlotInv => GuestLimit
  BY DEF SlotInv
<1>2. QED
  BY SlotInvariant, <1>1, PTL

-----------------------------------------------------------------------------
(* The end of the server.                                                  *)

\* The thread that brought the count to 0 and has not yet tested it.
Last(t) == pc[t] = "relTest" /\ reg[t] = 0

LetGo == pc[Owner] \in {"relTest", "gone"}

\* A count of 0 has a thread that will free the server, and only an owner that has let
\* go leaves the count to others to bring to 0.
EndInv == ~refLost => /\ ~freed /\ ref = 0 => \E t \in Threads : Last(t)
                      /\ freed \/ (\E t \in Threads : Last(t)) => LetGo

LEMMA EndInit == Init => EndInv
<1> SUFFICES ASSUME Init PROVE EndInv
  OBVIOUS
<1>1. ref = 1 /\ freed = FALSE /\ \A t \in Threads : pc[t] \in {"created", "off", "new"}
  BY DEF Init
<1>2. QED
  BY <1>1 DEF EndInv, Last

\* A step that leaves the count alone, brings nobody to the test and keeps an owner that
\* has let go where it is.
LEMMA EndQuiet ==
    ASSUME EndInv, UNCHANGED <<ref, refLost, freed>>,
           \A t \in Threads : Last(t)' <=> Last(t), LetGo => LetGo'
    PROVE  EndInv'
  BY DEF EndInv

LEMMA EndNext == TypeOK /\ RefInv /\ EndInv /\ [Next]_vars => EndInv'
<1> SUFFICES ASSUME TypeOK, RefInv, EndInv, [Next]_vars PROVE EndInv'
  OBVIOUS
<1>a. PcOK /\ reg \in [Threads -> Int] /\ ref \in Int
  BY DEF TypeOK, DataOK
<1>b. Owner \in Threads /\ Listener \in Threads /\ Conns \subseteq Threads
  BY DEF Threads
<1>c. \A c \in Conns : c # Owner /\ c # Listener
  BY SXServerAssumption
<1>d. Owner # Listener /\ Weak > 1 /\ Weak \in Nat
  BY SXServerAssumption
<1>e. RefInv'
  BY RefNext
<1>1. ASSUME UNCHANGED <<pc, reg, ref, refLost, freed>> PROVE EndInv'
  BY <1>1 DEF EndInv, Last, LetGo
<1>2. ASSUME NEW t \in Threads, SXReleaseLoad(t) PROVE EndInv'
  <2>1. /\ pc[t] = "release" /\ UNCHANGED <<ref, refLost, freed>>
        /\ \E l \in {AfterRelease(t), "relStore"} : pc' = [pc EXCEPT ![t] = l]
        /\ \A u \in Threads \ {t} : reg'[u] = reg[u]
    BY <1>2, <1>a DEF SXReleaseLoad, Ref!Load, refVars
  <2>2. AfterRelease(t) # "relTest"
    BY DEF AfterRelease
  <2>3. QED
    BY <1>a, <1>b, <2>1, <2>2, EndQuiet DEF PcOK, Last, LetGo
\* A store of 0 leaves no holder, so that the owner is none.
<1>3. ASSUME NEW t \in Threads, SXReleaseStore(t) PROVE EndInv'
  <2>1. /\ pc[t] = "relStore" /\ pc' = [pc EXCEPT ![t] = "relTest"] /\ ~freed /\ ~freed'
        /\ ref' = reg[t] - 1 /\ refLost' = (refLost \/ ref # reg[t])
        /\ reg' = [reg EXCEPT ![t] = @ - 1]
    BY <1>3, <1>a DEF SXReleaseStore, Ref!StoreAndKeep, Ref!Overwrite
  <2>2. reg'[t] = ref' /\ pc'[t] = "relTest" /\ \A u \in Threads \ {t} : Last(u)' <=> Last(u)
    BY <1>a, <2>1 DEF PcOK, Last
  <2>3. ref' = 0 => \E u \in Threads : Last(u)'
    BY <2>2 DEF Last
  <2>4. ASSUME ~refLost', ref' = 0 PROVE LetGo'
    <3>1. Cardinality(Holders') = 0
      BY <1>d, <1>e, <2>1, <2>4 DEF RefInv, RefAccounting
    <3>2. Holders' = {}
      <4>1. Holders' \subseteq Holders \cup {t}
        BY <1>a, <2>1 DEF Holders, PcOK
      <4>2. IsFiniteSet(Holders \cup {t})
        BY HoldersFinite, FS_AddElement
      <4>3. QED
        BY <3>1, <4>1, <4>2, FS_Subset, FS_EmptySet
    <3>3. pc'[Owner] \in OwnerPc \cup ReleasePc /\ pc'[Owner] \notin HoldingPc
      BY <1>a, <1>b, <2>1, <3>2 DEF Holders, PcOK, ReleasePc
    <3>4. QED
      BY <3>3 DEF LetGo, OwnerPc, ReleasePc, HoldingPc
  <2>5. LetGo => LetGo'
    BY <1>a, <1>b, <2>1 DEF LetGo, PcOK
  <2>6. QED
    BY <2>1, <2>2, <2>3, <2>4, <2>5 DEF EndInv, Last
\* Whoever frees has 0 in the register or reads it.
<1>4. ASSUME NEW t \in Threads, SXReleaseTest(t) PROVE EndInv'
  <2>1. /\ pc[t] = "relTest" /\ ~freed /\ pc' = [pc EXCEPT ![t] = AfterRelease(t)]
        /\ UNCHANGED <<ref, refLost>> /\ reg' = [reg EXCEPT ![t] = 0]
        /\ \E seen \in {ref, reg[t]} : freed' = (seen = 0)
    BY <1>4 DEF SXReleaseTest, Frees, refVars
  <2>2. LetGo => LetGo'
    BY <1>a, <1>b, <2>1 DEF LetGo, PcOK, AfterRelease
  <2>3. \A u \in Threads : Last(u)' <=> Last(u) /\ u # t
    BY <1>a, <2>1 DEF Last, PcOK, AfterRelease
  <2>4. freed' => ref = 0 \/ Last(t)
    BY <2>1 DEF Last
  <2>5. ref = 0 /\ Last(t) => freed'
    BY <2>1 DEF Last
  <2>6. QED
    BY <2>1, <2>2, <2>3, <2>4, <2>5 DEF EndInv
<1>5. CASE SXServerStart
  <2>1. /\ pc[Owner] = "created" /\ ref' = ref + 1 /\ UNCHANGED <<refLost, freed, reg>>
        /\ pc' = [pc EXCEPT ![Owner] = "started", ![Listener] = "start"] /\ ref = 1
    BY <1>5 DEF SXServerStart, RefInv
  <2>2. \A t \in Threads : Last(t)' => Last(t)
    BY <1>a, <1>b, <2>1 DEF Last, PcOK
  <2>3. QED
    BY <2>1, <2>2 DEF EndInv, LetGo
<1>6. ASSUME NEW c \in Conns, RetainStore(c) PROVE EndInv'
  <2>1. /\ pc[c] = "retStore" /\ pc' = [pc EXCEPT ![c] = "top"] /\ ~freed /\ ~freed'
        /\ ref' = reg[c] + 1 /\ refLost' = (refLost \/ ref # reg[c])
        /\ reg' = [reg EXCEPT ![c] = 0]
    BY <1>6 DEF RetainStore, Ref!Store, Ref!Overwrite
  <2>2. ~refLost' => ref' # 0
    <3>1. Cardinality(Holders) \in Nat
      BY HoldersFinite
    <3>2. reg[c] # Weak
      BY <1>b, <2>1 DEF RefInv
    <3>3. ~refLost => ref = Weak \/ ref = Cardinality(Holders)
      BY <2>1 DEF RefInv, RefAccounting
    <3>4. ~refLost' => ~refLost /\ ref = reg[c]
      BY <2>1, Zenon
    <3>5. QED
      BY <1>a, <1>d, <2>1, <3>1, <3>2, <3>3, <3>4
  <2>3. (\A t \in Threads : Last(t)' <=> Last(t)) /\ (LetGo => LetGo')
    BY <1>a, <1>b, <1>c, <2>1 DEF Last, LetGo, PcOK
  <2>4. QED
    BY <2>1, <2>2, <2>3 DEF EndInv
<1>7. CASE OwnerRelease
  <2>1. /\ pc[Owner] = "started" /\ pc' = [pc EXCEPT ![Owner] = "release"]
        /\ UNCHANGED <<ref, refLost, freed, reg>>
    BY <1>7 DEF OwnerRelease, refVars
  <2>2. QED
    BY <1>a, <1>b, <2>1, EndQuiet DEF PcOK, Last, LetGo
\* Steps of the accept loop and of a worker that neither retain nor release.
<1>8. CASE DidStart \/ While \/ Check \/ Guests \/ IncLoad \/ IncStore \/ Stop \/ DidKill
  <2>1. /\ pc[Listener] \notin {"relTest"} /\ UNCHANGED <<ref, refLost, freed>>
        /\ \A u \in Threads \ {Listener} : reg'[u] = reg[u]
        /\ \E l : l # "relTest" /\ pc' = [pc EXCEPT ![Listener] = l]
    BY <1>8, <1>a DEF DidStart, While, Check, Guests, IncLoad, IncStore, Stop, DidKill,
                      ListenerMoves, refVars, Count!Load, Count!Store
  <2>2. QED
    BY <1>a, <1>b, <1>d, <2>1, EndQuiet DEF PcOK, Last, LetGo
<1>9. ASSUME NEW c \in Conns, Accept(c) \/ Refuse(c) \/ AcceptFails(c) PROVE EndInv'
  <2>1. /\ pc[Listener] = "accept" /\ pc[c] = "backlog"
        /\ \E l \in {"while", "crashed"}, m \in {"queued", "refused", "closed"} :
               pc' = [pc EXCEPT ![Listener] = l, ![c] = m]
        /\ UNCHANGED <<ref, refLost, freed, reg>>
    BY <1>9 DEF Accept, Refuse, AcceptFails, ListenerMoves, refVars
  <2>2. QED
    BY <1>a, <1>b, <1>c, <1>d, <2>1, EndQuiet DEF PcOK, Last, LetGo
<1>10. ASSUME NEW c \in Conns,
              \/ Connect(c) \/ WorkerStart(c) \/ Top(c) \/ Switch(c) \/ Resume(c) \/ Recv(c)
              \/ SuspendedRecv(c) \/ HandlerReturns(c) \/ CloseSocket(c) \/ Leave(c) \/ DecStore(c)
       PROVE  EndInv'
  <2>1. pc[c] # "relTest" /\ UNCHANGED <<ref, refLost, freed>>
    BY <1>10 DEF Connect, WorkerStart, Top, Switch, Resume, Recv, SuspendedRecv, HandlerReturns,
                 CloseSocket, Leave, DecStore, WorkerMoves, refVars, Ref!Load
  <2>2. \A u \in Threads \ {c} : reg'[u] = reg[u]
    BY <1>10, <1>a DEF Connect, WorkerStart, Top, Switch, Resume, Recv, SuspendedRecv,
                 HandlerReturns, CloseSocket, Leave, DecStore, WorkerMoves, Ref!Load,
                 Count!Load, Count!Store
  <2>3. \E l : l # "relTest" /\ pc' = [pc EXCEPT ![c] = l]
    <3>1. Branch(stat[c]) # "relTest" /\ SuspendedTarget(stat[c]) # "relTest"
      BY DEF Branch, SuspendedTarget
    <3>2. CASE Recv(c) \/ SuspendedRecv(c)
      BY <3>1, <3>2 DEF Recv, SuspendedRecv
    <3>3. CASE Connect(c) \/ WorkerStart(c) \/ Top(c) \/ Resume(c)
      BY <3>3 DEF Connect, WorkerStart, Top, Resume
    <3>4. CASE Switch(c)
      BY <3>1, <3>4 DEF Switch
    <3>5. CASE HandlerReturns(c) \/ CloseSocket(c) \/ Leave(c) \/ DecStore(c)
      BY <3>5 DEF HandlerReturns, CloseSocket, Leave, DecStore
    <3>6. QED
      BY <1>10, <3>2, <3>3, <3>4, <3>5
  <2>4. QED
    BY <1>a, <1>b, <1>c, <2>1, <2>2, <2>3, EndQuiet DEF PcOK, Last, LetGo
<1>11. CASE UNCHANGED vars
  BY <1>1, <1>11 DEF vars
<1>12. CASE StatusStore \/ SXKillServer \/ Terminate
  BY <1>1, <1>12 DEF StatusStore, SXKillServer, Terminate, refVars
<1>13. ASSUME NEW o \in Managed, SXSuspendObject(o) \/ SXResumeObject(o) PROVE EndInv'
  BY <1>1, <1>13 DEF SXSuspendObject, SXResumeObject, refVars
<1>14. ASSUME NEW c \in Conns, Send(c) \/ Hangup(c) PROVE EndInv'
  BY <1>1, <1>14 DEF Send, Hangup, refVars
<1>15. QED
  BY <1>2, <1>3, <1>4, <1>5, <1>6, <1>7, <1>8, <1>9, <1>10, <1>11, <1>12, <1>13, <1>14, NextCases

LEMMA EndInvariant == Spec => [](TypeOK /\ RefInv /\ EndInv)
<1>1. TypeOK /\ RefInv /\ EndInv /\ [Next]_vars => (TypeOK /\ RefInv /\ EndInv)'
  BY PcNext, FlagsNext, NetNext, DataNext, RefNext, EndNext DEF TypeOK
<1>2. QED
  BY TypeInit, RefInit, EndInit, <1>1, PTL DEF Spec

\* For any number of connections: when everybody has let go and the counting was exact,
\* the server has been freed (sx_object.c:60-68).
THEOREM NoServerLeakHolds == Spec => []NoServerLeak
<1>1. TypeOK /\ RefInv /\ EndInv => NoServerLeak
  <2> SUFFICES ASSUME TypeOK, RefInv, EndInv, ~freed, ~refLost, ref # Weak,
                      pc[Owner] = "gone", pc[Listener] = "done", \A c \in Conns : pc[c] \in Done
               PROVE  FALSE
    BY DEF NoServerLeak
  <2>1. Holders = {}
    BY DEF Holders, HoldingPc, LoopPc, Done, Threads
  <2>2. ref = 0
    BY <2>1, FS_EmptySet DEF RefInv, RefAccounting
  <2>3. PICK t \in Threads : Last(t)
    BY <2>2 DEF EndInv
  <2>4. QED
    BY <2>3 DEF Last, Done, Threads
<1>2. QED
  BY <1>1, EndInvariant, PTL

\* For any number of connections, didKill is given a freed server only when the owner has
\* let go of it (SXServer.c:328-332).
THEOREM DidKillAliveHolds == Spec => []DidKillAlive
<1>1. EndInv => DidKillAlive
  BY DEF EndInv, LetGo, DidKillAlive
<1>2. QED
  BY <1>1, EndInvariant, PTL

-----------------------------------------------------------------------------
(* One connection, for any number of them: handles of its queue stay       *)
(* valid, a suspension lets one more call in, and the server implements    *)
(* ConnLife.                                                               *)

\* Threads and objects are told apart.
LEMMA Names ==
    /\ Conns \subseteq Threads /\ Owner \in Threads /\ Listener \in Threads
    /\ \A t \in Threads : t \in Conns \/ t = Owner \/ t = Listener
    /\ Conns \subseteq Objects /\ Server \in Objects
    /\ Server \notin Conns /\ Owner \notin Conns /\ Listener \notin Conns
  BY SXServerAssumption DEF Threads, Objects

LEMMA StatusesDiffer ==
    /\ Suspend # Running /\ Suspend # Resuming /\ Suspend # Idle /\ Suspend # ShouldTerminate
    /\ Running # Resuming /\ Running # Idle /\ Running # ShouldTerminate
    /\ Resuming # Idle /\ Resuming # ShouldTerminate
  BY DEF Idle, Running, Resuming, Suspend, ShouldTerminate

\* What the block of one connection does and what the others do to its place.
WorkerActs(c) ==
    \/ WorkerStart(c) \/ RetainStore(c) \/ Top(c) \/ Switch(c) \/ Resume(c) \/ Recv(c)
    \/ SuspendedRecv(c) \/ HandlerReturns(c) \/ CloseSocket(c) \/ Leave(c) \/ DecStore(c)
ReleaseActs(t) == SXReleaseLoad(t) \/ SXReleaseStore(t) \/ SXReleaseTest(t)
Admits(c) == Connect(c) \/ Accept(c) \/ Refuse(c) \/ AcceptFails(c)

-----------------------------------------------------------------------------
(* Queues.                                                                 *)

Unstarted == {"new", "backlog", "queued", "refused"}

\* A queue exists from the start of its block on; a block that ends has one, and a
\* connection that is closed without one was never accepted.  The program stores only
\* into queues it was handed.
QueueInv == /\ \A c \in Conns : /\ pc[c] \in Unstarted => c \notin queues /\ stat[c] = Idle
                                /\ pc[c] \notin Unstarted \cup {"closed"} => c \in queues
            /\ QueueHandleValid

LEMMA QueueInit == Init => QueueInv
  BY Names DEF Init, QueueInv, QueueHandleValid, Unstarted

\* Queues are made and never freed.
LEMMA QueuesGrow == ASSUME Next PROVE queues \subseteq queues'
<1>1. ASSUME NEW t \in Threads, ReleaseActs(t) PROVE queues' = queues
  BY <1>1 DEF ReleaseActs, SXReleaseLoad, SXReleaseStore, SXReleaseTest
<1>2. CASE \/ SXServerStart \/ StatusStore \/ SXKillServer \/ Terminate \/ OwnerRelease
           \/ \E o \in Managed : SXSuspendObject(o) \/ SXResumeObject(o)
  BY <1>2 DEF SXServerStart, StatusStore, SXKillServer, Terminate, OwnerRelease,
              SXSuspendObject, SXResumeObject
<1>3. CASE DidStart \/ While \/ Check \/ Guests \/ IncLoad \/ IncStore \/ Stop \/ DidKill
  BY <1>3 DEF DidStart, While, Check, Guests, IncLoad, IncStore, Stop, DidKill, ListenerMoves
<1>4. ASSUME NEW c \in Conns, Admits(c) \/ Send(c) \/ Hangup(c) PROVE queues' = queues
  BY <1>4 DEF Admits, Connect, Send, Hangup, Accept, Refuse, AcceptFails, ListenerMoves
<1>5. ASSUME NEW c \in Conns, WorkerActs(c) PROVE queues \subseteq queues'
  BY <1>5 DEF WorkerActs, WorkerStart, RetainStore, Top, Switch, Resume, Recv, SuspendedRecv,
              HandlerReturns, CloseSocket, Leave, DecStore, WorkerMoves, QueueRefCount
<1>6. QED
  BY <1>1, <1>2, <1>3, <1>4, <1>5, NextCases DEF ReleaseActs, Admits, WorkerActs

\* The program's store goes to the server, or to a queue whose block has started.
LEMMA StoreTarget ==
    ASSUME Next, QueueInv
    PROVE  app' # <<>> /\ app'[1] \in Conns => app'[1] \in queues
<1> USE DEF QueueInv, QueueHandleValid
<1>1. ASSUME UNCHANGED app PROVE app' # <<>> /\ app'[1] \in Conns => app'[1] \in queues
  BY <1>1
<1>2. ASSUME NEW t \in Threads, ReleaseActs(t) PROVE app' = app
  BY <1>2 DEF ReleaseActs, SXReleaseLoad, SXReleaseStore, SXReleaseTest, appVars
<1>3. CASE SXServerStart \/ SXKillServer \/ Terminate \/ OwnerRelease
  BY <1>1, <1>3 DEF SXServerStart, SXKillServer, Terminate, OwnerRelease, appVars
<1>4. CASE StatusStore
  BY <1>4 DEF StatusStore
<1>5. ASSUME NEW o \in Managed, SXSuspendObject(o) \/ SXResumeObject(o)
      PROVE  app' # <<>> /\ app'[1] \in Conns => app'[1] \in queues
  <2>1. app'[1] = o /\ Usable(o)
    BY <1>5 DEF SXSuspendObject, SXResumeObject
  <2>2. o \in Conns => pc[o] \in LoopPc
    BY <2>1, Names DEF Usable
  <2>3. QED
    BY <2>1, <2>2 DEF LoopPc, Unstarted
<1>6. CASE DidStart \/ While \/ Check \/ Guests \/ IncLoad \/ IncStore \/ Stop \/ DidKill
  BY <1>1, <1>6 DEF DidStart, While, Check, Guests, IncLoad, IncStore, Stop, DidKill,
                    ListenerMoves, appVars
<1>7. ASSUME NEW c \in Conns, Admits(c) \/ Send(c) \/ Hangup(c) PROVE app' = app
  BY <1>7 DEF Admits, Connect, Send, Hangup, Accept, Refuse, AcceptFails, ListenerMoves, appVars
<1>8. ASSUME NEW c \in Conns, WorkerActs(c) PROVE app' = app
  BY <1>8 DEF WorkerActs, WorkerStart, RetainStore, Top, Switch, Resume, Recv, SuspendedRecv,
              HandlerReturns, CloseSocket, Leave, DecStore, WorkerMoves, appVars
<1>9. QED
  BY <1>1, <1>2, <1>3, <1>4, <1>5, <1>6, <1>7, <1>8, NextCases
     DEF ReleaseActs, Admits, WorkerActs

\* One connection's place, queue and status.
QueueOf(c) == /\ pc[c] \in Unstarted => c \notin queues /\ stat[c] = Idle
              /\ pc[c] \notin Unstarted \cup {"closed"} => c \in queues

LEMMA QueueOfNext ==
    ASSUME PcOK, DataOK, QueueInv, Next, NEW d \in Conns
    PROVE  QueueOf(d)'
<1> USE Names DEF PcOK, DataOK, At, Goto, Step
<1> QueueOf(d)
  BY DEF QueueInv, QueueOf
<1>0. ASSUME UNCHANGED <<pc[d], queues, stat[d]>> PROVE QueueOf(d)'
  BY <1>0 DEF QueueOf
<1>1. ASSUME NEW t \in Threads, ReleaseActs(t) PROVE QueueOf(d)'
  <2>1. UNCHANGED <<queues, stat>> /\ pc[t] \in ReleasePc
    BY <1>1 DEF ReleaseActs, SXReleaseLoad, SXReleaseStore, SXReleaseTest, ReleasePc
  <2>2. \E l \in {"gone", "didKill", "leave", "relStore", "relTest"} : pc' = [pc EXCEPT ![t] = l]
    BY <1>1 DEF ReleaseActs, SXReleaseLoad, SXReleaseStore, SXReleaseTest, AfterRelease
  <2>3. CASE t = d
    BY <2>1, <2>2, <2>3 DEF QueueOf, Unstarted, ReleasePc
  <2>4. CASE t # d
    BY <1>0, <2>1, <2>2, <2>4
  <2>5. QED
    BY <2>3, <2>4
<1>2. CASE SXServerStart \/ SXKillServer \/ OwnerRelease
  BY <1>0, <1>2 DEF SXServerStart, SXKillServer, OwnerRelease
<1>3. CASE Terminate \/ DidStart \/ Stop
  BY <1>0, <1>3 DEF Terminate, DidStart, Stop, ListenerMoves
<1>4. CASE StatusStore
  <2>1. app[1] = d => d \in queues
    BY <1>4 DEF StatusStore, QueueInv, QueueHandleValid
  <2>2. UNCHANGED <<pc, queues>> /\ stat' = [stat EXCEPT ![app[1]] = app[2]]
    BY <1>4 DEF StatusStore
  <2>3. QED
    BY <2>1, <2>2 DEF QueueOf
<1>5. ASSUME NEW o \in Managed, SXSuspendObject(o) \/ SXResumeObject(o) PROVE QueueOf(d)'
  BY <1>0, <1>5 DEF SXSuspendObject, SXResumeObject
<1>6. CASE While \/ Check \/ Guests \/ IncLoad \/ IncStore \/ DidKill
  BY <1>0, <1>6 DEF While, Check, Guests, IncLoad, IncStore, DidKill, ListenerMoves
<1>7. ASSUME NEW c \in Conns, Send(c) \/ Hangup(c) PROVE QueueOf(d)'
  BY <1>0, <1>7 DEF Send, Hangup
<1>8. ASSUME NEW c \in Conns, Admits(c) PROVE QueueOf(d)'
  <2>1. UNCHANGED <<queues, stat>> /\ pc[c] \in {"new", "backlog"}
    BY <1>8 DEF Admits, Connect, Accept, Refuse, AcceptFails, ListenerMoves
  <2>2. pc'[d] = pc[d] \/ (d = c /\ pc'[d] \in Unstarted \cup {"closed"})
    BY <1>8 DEF Admits, Connect, Accept, Refuse, AcceptFails, Unstarted
  <2>3. QED
    BY <2>1, <2>2 DEF QueueOf, Unstarted
<1>9. ASSUME NEW c \in Conns, c # d, WorkerActs(c) PROVE QueueOf(d)'
  <2>1. pc'[d] = pc[d] /\ stat'[d] = stat[d]
    BY <1>9 DEF WorkerActs, WorkerStart, RetainStore, Top, Switch, Resume, Recv, SuspendedRecv,
                HandlerReturns, CloseSocket, Leave, DecStore, WorkerMoves
  <2>2. d \in queues' <=> d \in queues
    BY <1>9 DEF WorkerActs, WorkerStart, RetainStore, Top, Switch, Resume, Recv, SuspendedRecv,
                HandlerReturns, CloseSocket, Leave, DecStore, WorkerMoves
  <2>3. QED
    BY <2>1, <2>2 DEF QueueOf
<1>10. CASE WorkerStart(d)
  BY <1>10 DEF WorkerStart, QueueOf, Unstarted
<1>11. CASE WorkerActs(d) /\ ~WorkerStart(d)
  <2>1. /\ pc[d] \notin Unstarted \cup {"closed"}
        /\ pc'[d] \notin Unstarted
    <3>1. Switch(d) => pc'[d] \in {"recv", "resume", "srecv", "close"}
      BY DEF Switch, Branch
    <3>2. SuspendedRecv(d) => pc'[d] \in {"close", "data", "top"}
      BY DEF SuspendedRecv, SuspendedTarget
    <3>3. QED
      BY <1>11, <3>1, <3>2
         DEF WorkerActs, RetainStore, Top, Switch, Resume, Recv, SuspendedRecv,
             HandlerReturns, CloseSocket, Leave, DecStore, Unstarted
  <2>2. QED
    BY <2>1, QueuesGrow DEF QueueOf
<1>12. QED
  BY <1>1, <1>2, <1>3, <1>4, <1>5, <1>6, <1>7, <1>8, <1>9, <1>10, <1>11, NextCases
     DEF ReleaseActs, Admits, WorkerActs

LEMMA QueueNext == PcOK /\ DataOK /\ QueueInv /\ [Next]_vars => QueueInv'
<1> SUFFICES ASSUME PcOK, DataOK, QueueInv, [Next]_vars PROVE QueueInv'
  OBVIOUS
<1>1. CASE UNCHANGED vars
  BY <1>1 DEF vars, QueueInv, QueueHandleValid
<1>2. CASE Next
  BY <1>2, QueueOfNext, QueuesGrow, StoreTarget DEF QueueInv, QueueHandleValid, QueueOf
<1>3. QED
  BY <1>1, <1>2

\* For any number of connections, the store of SXSuspendObject or SXResumeObject never
\* lands in a freed queue (sx_object.c:33-35, SXServer.c:322).
THEOREM QueueHandleValidHolds == Spec => []QueueHandleValid
<1>1. Init => PcOK /\ DataOK /\ QueueInv
  BY TypeInit, QueueInit DEF TypeOK
<1>2. PcOK /\ DataOK /\ QueueInv /\ [Next]_vars => (PcOK /\ DataOK /\ QueueInv)'
  BY PcNext, DataNext, QueueNext
<1>3. QueueInv => QueueHandleValid
  BY DEF QueueInv
<1>4. QED
  BY <1>1, <1>2, <1>3, PTL DEF Spec

-----------------------------------------------------------------------------
(* A suspended connection is handed data at most once more.                *)

\* A call has been made since the suspension: the worker is not about to receive as a
\* running one, and what it looks at next says suspended, or that the server does.
LateOf(c) ==
    /\ late[c] \in {0, 1}
    /\ late[c] = 1 =>
         /\ pc[c] \notin {"new", "backlog", "queued", "retStore", "refused", "recv"}
         /\ pc[c] = "switch" => stat[c] # Running
         /\ pc[c] = "srecv" => stat[c] = Suspend
         /\ stat[Server] = Running => stat[c] = Suspend /\ pc[c] # "resume"

LateInv == \A c \in Conns : LateOf(c)

LEMMA LateInit == Init => LateInv
  BY DEF Init, LateInv, LateOf

\* The data handler is called only where no call is counted yet, or none is to count.
LEMMA Calls ==
    ASSUME DataOK, NEW c \in Conns, LateOf(c), Recv(c) \/ SuspendedRecv(c)
    PROVE  /\ UNCHANGED <<stat, queues>> /\ pc[c] \in {"recv", "srecv"}
           /\ \/ Goto(c, "close") /\ UNCHANGED late
              \/ Goto(c, "top") /\ UNCHANGED late
              \/ (Goto(c, "data") \/ Goto(c, "eof")) /\ Deliver(c) /\ late[c] = 0
<1> USE DEF At, Goto
<1>1. CASE Recv(c)
  BY <1>1 DEF Recv, WorkerMoves, LateOf
<1>2. CASE SuspendedRecv(c)
  <2>1. /\ UNCHANGED <<stat, queues>> /\ pc[c] = "srecv"
        /\ \/ Goto(c, "close") /\ UNCHANGED late
           \/ /\ Goto(c, SuspendedTarget(stat[c]))
              /\ IF SuspendedTarget(stat[c]) = "data" THEN Deliver(c) ELSE UNCHANGED late
    BY <1>2 DEF SuspendedRecv, WorkerMoves
  <2>2. SuspendedTarget(stat[c]) \in {"close", "data", "top"}
    BY DEF SuspendedTarget
  <2>3. SuspendedTarget(stat[c]) = "data" => stat[c] # Suspend
    BY StatusesDiffer DEF SuspendedTarget
  <2>4. SuspendedTarget(stat[c]) = "data" => late[c] = 0
    BY <2>1, <2>3 DEF LateOf
  <2>5. QED
    BY <2>1, <2>2, <2>4
<1>3. QED
  BY <1>1, <1>2

LEMMA LateOfNext ==
    ASSUME PcOK, DataOK, RefInv, Next, NEW d \in Conns, LateOf(d)
    PROVE  LateOf(d)'
<1> USE Names DEF PcOK, DataOK, At, Goto, Step
<1> USE StatusesDiffer
<1>0. ASSUME UNCHANGED <<pc[d], stat[d], late[d]>>,
             stat'[Server] = stat[Server] \/ stat'[Server] # Running
      PROVE  LateOf(d)'
  BY <1>0 DEF LateOf
<1>1. ASSUME NEW t \in Threads, ReleaseActs(t) PROVE LateOf(d)'
  <2>1. UNCHANGED <<late, stat>> /\ pc[t] \in ReleasePc
    BY <1>1 DEF ReleaseActs, SXReleaseLoad, SXReleaseStore, SXReleaseTest, ReleasePc
  <2>2. \E l \in {"gone", "didKill", "leave", "relStore", "relTest"} : pc' = [pc EXCEPT ![t] = l]
    BY <1>1 DEF ReleaseActs, SXReleaseLoad, SXReleaseStore, SXReleaseTest, AfterRelease
  <2>3. CASE t = d
    BY <2>1, <2>2, <2>3 DEF LateOf
  <2>4. CASE t # d
    BY <1>0, <2>1, <2>2, <2>4
  <2>5. QED
    BY <2>3, <2>4
<1>2. CASE SXServerStart \/ SXKillServer \/ OwnerRelease
  BY <1>0, <1>2 DEF SXServerStart, SXKillServer, OwnerRelease
<1>3. CASE Terminate \/ Stop
  BY <1>0, <1>3 DEF Terminate, Stop, ListenerMoves
\* The server starts before the first connection.
<1>4. CASE DidStart
  <2>1. pc[Listener] = "start" /\ pc'[d] = pc[d] /\ UNCHANGED late
    BY <1>4 DEF DidStart, ListenerMoves
  <2>2. pc[d] = "new"
    BY <2>1 DEF RefInv
  <2>3. QED
    BY <2>1, <2>2 DEF LateOf
<1>5. CASE StatusStore
  <2>1. /\ app[2] \in {Suspend, Resuming} /\ UNCHANGED pc
        /\ stat' = [stat EXCEPT ![app[1]] = app[2]] /\ app[1] \in Objects
        /\ late'[d] = IF app[2] = Resuming /\ app[1] \in {d, Server} THEN 0 ELSE late[d]
    BY <1>5 DEF StatusStore
  <2>2. CASE app[2] = Resuming /\ app[1] \in {d, Server}
    BY <2>1, <2>2 DEF LateOf
  <2>3. CASE app[1] \notin {d, Server}
    BY <1>0, <2>1, <2>3
  <2>4. CASE app[2] = Suspend
    <3>1. late'[d] = late[d] /\ stat'[d] \in {stat[d], Suspend}
          /\ stat'[Server] \in {stat[Server], Suspend}
      BY <2>1, <2>4
    <3>2. QED
      BY <2>1, <3>1 DEF LateOf
  <2>5. QED
    BY <2>1, <2>2, <2>3, <2>4
<1>6. ASSUME NEW o \in Managed, SXSuspendObject(o) \/ SXResumeObject(o) PROVE LateOf(d)'
  BY <1>0, <1>6 DEF SXSuspendObject, SXResumeObject
<1>7. CASE While \/ Check \/ Guests \/ IncLoad \/ IncStore \/ DidKill
  BY <1>0, <1>7 DEF While, Check, Guests, IncLoad, IncStore, DidKill, ListenerMoves
<1>8. ASSUME NEW c \in Conns, Send(c) \/ Hangup(c) PROVE LateOf(d)'
  BY <1>0, <1>8 DEF Send, Hangup
<1>9. ASSUME NEW c \in Conns, Admits(c) PROVE LateOf(d)'
  <2>1. UNCHANGED <<late, stat>> /\ pc[c] \in {"new", "backlog"} /\ (c # d => pc'[d] = pc[d])
    BY <1>9 DEF Admits, Connect, Accept, Refuse, AcceptFails, ListenerMoves
  <2>2. CASE c = d
    BY <2>1, <2>2 DEF LateOf
  <2>3. CASE c # d
    BY <1>0, <2>1, <2>3
  <2>4. QED
    BY <2>2, <2>3
<1>10. ASSUME NEW c \in Conns, c # d, WorkerActs(c) PROVE LateOf(d)'
  <2>1. UNCHANGED late \/ Deliver(c)
    BY <1>10 DEF WorkerActs, WorkerStart, RetainStore, Top, Switch, Resume, Recv, SuspendedRecv,
                 HandlerReturns, CloseSocket, Leave, DecStore
  <2>2. UNCHANGED stat \/ \E s : stat' = [stat EXCEPT ![c] = s]
    BY <1>10 DEF WorkerActs, WorkerStart, RetainStore, Top, Switch, Resume, Recv, SuspendedRecv,
                 HandlerReturns, CloseSocket, Leave, DecStore, WorkerMoves
  <2>3. pc'[d] = pc[d]
    BY <1>10 DEF WorkerActs, WorkerStart, RetainStore, Top, Switch, Resume, Recv, SuspendedRecv,
                 HandlerReturns, CloseSocket, Leave, DecStore, WorkerMoves
  <2>4. late'[d] = late[d]
    BY <1>10, <2>1 DEF Deliver
  <2>5. stat'[d] = stat[d] /\ stat'[Server] = stat[Server]
    BY <1>10, <2>2
  <2>6. QED
    BY <1>0, <2>3, <2>4, <2>5
<1>11. CASE WorkerStart(d) \/ RetainStore(d)
  BY <1>11 DEF WorkerStart, RetainStore, LateOf
<1>12. CASE Top(d)
  <2>1. /\ UNCHANGED late /\ pc'[d] = "switch" /\ stat'[Server] = stat[Server]
        /\ stat'[d] = IF stat[Server] # Running THEN stat[Server] ELSE stat[d]
    BY <1>12 DEF Top
  <2>2. QED
    BY <2>1 DEF LateOf
<1>13. CASE Switch(d)
  <2>1. UNCHANGED <<late, stat>> /\ pc'[d] = Branch(stat[d]) /\ pc[d] = "switch"
    BY <1>13 DEF Switch
  <2>2. Branch(stat[d]) \in {"recv", "resume", "srecv", "close"}
    BY DEF Branch
  <2>3. /\ stat[d] # Running => Branch(stat[d]) # "recv"
        /\ stat[d] # Suspend => Branch(stat[d]) # "srecv"
        /\ stat[d] = Suspend => Branch(stat[d]) # "resume"
    BY DEF Branch
  <2>4. QED
    BY <2>1, <2>2, <2>3 DEF LateOf
<1>14. CASE Resume(d)
  <2>1. /\ UNCHANGED late /\ pc'[d] = "top" /\ pc[d] = "resume" /\ stat'[Server] = stat[Server]
    BY <1>14 DEF Resume
  <2>2. QED
    BY <2>1 DEF LateOf
<1>15. CASE Recv(d) \/ SuspendedRecv(d)
  <2>1. UNCHANGED <<stat, queues>> /\ pc[d] \in {"recv", "srecv"}
    BY <1>15, Calls
  <2>2. CASE pc'[d] \in {"close", "top"} /\ UNCHANGED late
    BY <2>1, <2>2 DEF LateOf
  <2>3. CASE pc'[d] \in {"data", "eof"} /\ Deliver(d) /\ late[d] = 0
    <3>1. late'[d] = IF Suspended(d) THEN 1 ELSE 0
      BY <2>3 DEF Deliver
    <3>2. QED
      BY <2>1, <2>3, <3>1 DEF LateOf, Suspended
  <2>4. QED
    BY <1>15, <2>2, <2>3, Calls
<1>16. CASE HandlerReturns(d) \/ CloseSocket(d) \/ Leave(d) \/ DecStore(d)
  <2>1. /\ UNCHANGED <<late, stat>> /\ pc'[d] \in {"top", "close", "release", "decStore", "closed"}
        /\ pc[d] \in {"data", "eof", "close", "leave", "decStore"}
    BY <1>16 DEF HandlerReturns, CloseSocket, Leave, DecStore
  <2>2. QED
    BY <2>1 DEF LateOf
<1>17. QED
  BY <1>1, <1>2, <1>3, <1>4, <1>5, <1>6, <1>7, <1>8, <1>9, <1>10, <1>11, <1>12, <1>13,
     <1>14, <1>15, <1>16, NextCases DEF ReleaseActs, Admits, WorkerActs

LEMMA LateNext == TypeOK /\ RefInv /\ LateInv /\ [Next]_vars => LateInv'
<1> SUFFICES ASSUME TypeOK, RefInv, LateInv, [Next]_vars PROVE LateInv'
  OBVIOUS
<1>1. CASE UNCHANGED vars
  BY <1>1 DEF vars, LateInv, LateOf
<1>2. CASE Next
  BY <1>2, LateOfNext DEF TypeOK, LateInv
<1>3. QED
  BY <1>1, <1>2

\* For any number of connections and whatever is suspended and resumed meanwhile, a
\* suspension lets at most one more handler call begin (SXServer.c:268-305).
THEOREM LateDeliveryHolds == Spec => []LateDeliveryBound
<1>1. Init => TypeOK /\ RefInv /\ LateInv
  BY TypeInit, RefInit, LateInit
<1>2. TypeOK /\ [Next]_vars => TypeOK'
  BY PcNext, FlagsNext, NetNext, DataNext DEF TypeOK
<1>3. LateInv => LateDeliveryBound
  BY DEF LateInv, LateOf, LateDeliveryBound
<1>4. QED
  BY <1>1, <1>2, <1>3, RefNext, LateNext, PTL DEF Spec

-----------------------------------------------------------------------------
(* SXServer implements ConnLife.                                           *)

LifeInv == TypeOK /\ RefInv /\ QueueInv /\ LateInv

InHandler(c) == pc[c] \in {"data", "eof"}

SamePhase    == \A c \in Conns : Phase(c)' = Phase(c)
SameHandling == \A c \in Conns : InHandler(c)' = InHandler(c)
SameQuiet    == \A c \in Conns : Suspended(c)' = Suspended(c)

LivePc == {"retStore", "close"} \cup LoopPc
DownPc == ReleasePc \cup {"leave", "decStore"}

\* What a reader of ConnLife sees at each place, before and after a step.
LEMMA Phases ==
    ASSUME NEW c
    PROVE  /\ pc[c] = "new" => Phase(c) = "none"
           /\ pc[c] \in {"backlog", "queued"} => Phase(c) = "pending"
           /\ pc[c] \in LivePc => Phase(c) = "live"
           /\ pc[c] = "refused" \/ (pc[c] = "closed" /\ c \notin queues) => Phase(c) = "refused"
           /\ pc[c] \in DownPc \/ (pc[c] = "closed" /\ c \in queues) => Phase(c) = "down"
  BY DEF Phase, LivePc, LoopPc, DownPc, ReleasePc

LEMMA PhasesNext ==
    ASSUME NEW c
    PROVE  /\ pc'[c] = "new" => Phase(c)' = "none"
           /\ pc'[c] \in {"backlog", "queued"} => Phase(c)' = "pending"
           /\ pc'[c] \in LivePc => Phase(c)' = "live"
           /\ pc'[c] = "refused" \/ (pc'[c] = "closed" /\ c \notin queues') => Phase(c)' = "refused"
           /\ pc'[c] \in DownPc \/ (pc'[c] = "closed" /\ c \in queues') => Phase(c)' = "down"
  BY DEF Phase, LivePc, LoopPc, DownPc, ReleasePc

\* A connection that stays at its place and keeps its queue looks the same.
LEMMA Still ==
    ASSUME NEW c, pc'[c] = pc[c], c \in queues' <=> c \in queues
    PROVE  Phase(c)' = Phase(c) /\ InHandler(c)' = InHandler(c)
<1>1. InHandler(c)' = InHandler(c)
  BY DEF InHandler
<1>2. Phase(c)' = Phase(c)
  BY DEF Phase
<1>3. QED
  BY <1>1, <1>2

LEMMA Stutters ==
    ASSUME SamePhase, SameHandling, SameQuiet, UNCHANGED late
    PROVE  UNCHANGED Life!vars
  BY Zenon DEF Life!vars, SamePhase, SameHandling, SameQuiet, InHandler

\* The status of the server or of a connection changes, and nobody gains a call.
LEMMA Hushes ==
    ASSUME SamePhase, SameHandling, UNCHANGED late
    PROVE  \E S \in SUBSET Conns : Life!Hush(S)
<1> DEFINE S == {c \in Conns : Suspended(c)'}
<1>1. [c \in Conns |-> Suspended(c)]' = [c \in Conns |-> c \in S]
  BY DEF Suspended
<1>2. Life!Hush(S)
  BY <1>1, Zenon DEF Life!Hush, SamePhase, SameHandling, InHandler
<1>3. QED
  BY <1>2, Zenon

LEMMA Becomes ==
    ASSUME NEW c \in Conns, NEW from, NEW to, Phase(c) = from, Phase(c)' = to,
           \A d \in Conns \ {c} : Phase(d)' = Phase(d),
           SameHandling, SameQuiet, UNCHANGED late
    PROVE  Life!Becomes(c, from, to)
<1>1. [d \in Conns |-> Phase(d)]' = [[d \in Conns |-> Phase(d)] EXCEPT ![c] = to]
  OBVIOUS
<1>2. UNCHANGED <<[d \in Conns |-> InHandler(d)], [d \in Conns |-> Suspended(d)],
                  [d \in Conns |-> 1 - late[d]]>>
  BY Zenon DEF SameHandling, SameQuiet
<1>3. [d \in Conns |-> Phase(d)][c] = from
  OBVIOUS
<1>4. QED
  BY <1>1, <1>2, <1>3, Zenon DEF Life!Becomes, InHandler

LEMMA InitImplements == Init => Life!Init
<1> SUFFICES ASSUME Init PROVE Life!Init
  OBVIOUS
<1>1. \A c \in Conns : pc[c] = "new" /\ stat[c] = Idle /\ stat[Server] = Idle /\ late[c] = 0
  BY Names DEF Init
<1>2. [c \in Conns |-> Phase(c)] = [c \in Conns |-> "none"]
  BY <1>1, Phases
<1>3. [c \in Conns |-> pc[c] \in {"data", "eof"}] = [c \in Conns |-> FALSE]
  <2>1. \A c \in Conns : (pc[c] \in {"data", "eof"}) = FALSE
    BY <1>1
  <2>2. QED
    BY <2>1, Zenon
<1>4. [c \in Conns |-> Suspended(c)] = [c \in Conns |-> FALSE]
  <2>1. \A c \in Conns : Suspended(c) = FALSE
    BY <1>1, StatusesDiffer DEF Suspended
  <2>2. QED
    BY <2>1, Zenon
<1>5. [c \in Conns |-> 1 - late[c]] = [c \in Conns |-> 1]
  BY <1>1
<1>6. QED
  BY <1>2, <1>3, <1>4, <1>5, Zenon DEF Life!Init

\* A handler is called: the call is counted against a suspended connection.
LEMMA Begins ==
    ASSUME LifeInv, NEW c \in Conns, pc[c] \in {"recv", "srecv"},
           Goto(c, "data") \/ Goto(c, "eof"), Deliver(c), late[c] = 0,
           UNCHANGED <<stat, queues>>
    PROVE  Life!Begin(c)
<1>0. /\ pc \in [Threads -> OwnerPc \cup ListenerPc \cup WorkerPc \cup ReleasePc]
      /\ late \in [Conns -> Nat] /\ c \in Threads
  BY Names DEF LifeInv, TypeOK, PcOK, DataOK
<1>1. pc'[c] \in {"data", "eof"} /\ \A d \in Conns \ {c} : pc'[d] = pc[d]
  BY <1>0, Names DEF Goto
<1>2. Phase(c) = "live" /\ Phase(c)' = "live"
  BY <1>1, Phases, PhasesNext DEF LivePc, LoopPc
<1>3. SamePhase
  BY <1>1, <1>2, Still DEF SamePhase
<1>4. [d \in Conns |-> InHandler(d)]' = [[d \in Conns |-> InHandler(d)] EXCEPT ![c] = TRUE]
  BY <1>1 DEF InHandler
<1>5. UNCHANGED <<[d \in Conns |-> Phase(d)], [d \in Conns |-> Suspended(d)]>>
  BY <1>3, Zenon DEF SamePhase, Suspended
<1>6. [d \in Conns |-> InHandler(d)][c] = FALSE
  <2>1. InHandler(c) = FALSE
    BY DEF InHandler
  <2>2. QED
    BY <2>1, Zenon
<1>7. /\ [d \in Conns |-> Phase(d)][c] = "live"
      /\ [d \in Conns |-> Suspended(d)][c] = Suspended(c)
  BY <1>2, Zenon
<1>8. [d \in Conns |-> 1 - late[d]][c] = 1
  OBVIOUS
<1>9. CASE Suspended(c)
  <2>1. late' = [late EXCEPT ![c] = 1]
    BY <1>0, <1>9 DEF Deliver
  <2>2. \A d \in Conns : 1 - late'[d] = IF d = c THEN 0 ELSE 1 - late[d]
    BY <1>0, <2>1
  <2>3. [d \in Conns |-> 1 - late'[d]] = [d \in Conns |-> IF d = c THEN 0 ELSE 1 - late[d]]
    BY <2>2
  <2>4. [d \in Conns |-> 1 - late[d]]' = [[d \in Conns |-> 1 - late[d]] EXCEPT ![c] = 0]
    BY <2>3
  <2>5. QED
    BY <1>4, <1>5, <1>6, <1>7, <1>8, <1>9, <2>4, Zenon DEF Life!Begin, InHandler
<1>10. CASE ~Suspended(c)
  <2>1. [d \in Conns |-> 1 - late[d]]' = [d \in Conns |-> 1 - late[d]]
    BY <1>0, <1>10 DEF Deliver
  <2>2. QED
    BY <1>4, <1>5, <1>6, <1>7, <1>10, <2>1, Zenon DEF Life!Begin, InHandler
<1>11. QED
  BY <1>9, <1>10, Zenon

\* A handler returns.
LEMMA Ends ==
    ASSUME LifeInv, NEW c \in Conns, HandlerReturns(c)
    PROVE  Life!End(c)
<1>1. /\ pc[c] \in {"data", "eof"} /\ pc'[c] \in {"top", "close"}
      /\ \A d \in Conns \ {c} : pc'[d] = pc[d]
      /\ UNCHANGED <<stat, queues, late>>
  BY Names DEF HandlerReturns, WorkerMoves, LifeInv, TypeOK, PcOK, At, Goto
<1>2. SamePhase
  <2>1. Phase(c)' = Phase(c)
    BY <1>1, Phases, PhasesNext DEF LivePc, LoopPc
  <2>2. QED
    BY <1>1, <2>1, Still DEF SamePhase
<1>3. [d \in Conns |-> InHandler(d)]' = [[d \in Conns |-> InHandler(d)] EXCEPT ![c] = FALSE]
  <2>1. InHandler(c)' = FALSE /\ \A d \in Conns \ {c} : InHandler(d)' = InHandler(d)
    BY <1>1 DEF InHandler
  <2>2. QED
    BY <2>1
<1>4. [d \in Conns |-> InHandler(d)][c] = TRUE
  <2>1. InHandler(c) = TRUE
    BY <1>1 DEF InHandler
  <2>2. QED
    BY <2>1, Zenon
<1>5. UNCHANGED <<[d \in Conns |-> Phase(d)], [d \in Conns |-> Suspended(d)],
                  [d \in Conns |-> 1 - late[d]]>>
  BY <1>1, <1>2, Zenon DEF SamePhase, Suspended
<1>6. QED
  BY <1>3, <1>4, <1>5, Zenon DEF Life!End, InHandler

\* A resume of the server or of a connection gives each that is resumed a new call.
LEMMA Wakes ==
    ASSUME LifeInv, StatusStore, app[2] = Resuming
    PROVE  \E S \in SUBSET Conns : Life!Wake(S)
<1>0. {c \in Conns : app[1] \in {c, Server}} \in SUBSET Conns
  OBVIOUS
<1> PICK S \in SUBSET Conns : S = {c \in Conns : app[1] \in {c, Server}}
  BY <1>0, Zenon
<1>1. /\ stat' = [stat EXCEPT ![app[1]] = Resuming] /\ UNCHANGED <<pc, queues>>
      /\ late' = [c \in Conns |-> IF app[1] \in {c, Server} THEN 0 ELSE late[c]]
  BY DEF StatusStore
<1>2. \A c \in Conns \ S : Suspended(c)' = Suspended(c)
  BY <1>1, Names DEF Suspended, LifeInv, TypeOK, DataOK
<1>3. [c \in Conns |-> Suspended(c)]' \in [Conns -> BOOLEAN]
  BY DEF Suspended
<1>4. [c \in Conns |-> 1 - late[c]]'
        = [c \in Conns |-> IF c \in S THEN 1 ELSE [d \in Conns |-> 1 - late[d]][c]]
  BY <1>1
<1>5. SamePhase /\ SameHandling
  BY <1>1, Still DEF SamePhase, SameHandling
<1>6. UNCHANGED <<[c \in Conns |-> Phase(c)], [c \in Conns |-> pc[c] \in {"data", "eof"}]>>
  BY <1>1, <1>5, Zenon DEF SamePhase
<1>7. \A c \in Conns \ S :
        [d \in Conns |-> Suspended(d)]'[c] = [d \in Conns |-> Suspended(d)][c]
  BY <1>2, Zenon
<1>8. Life!Wake(S)
  BY <1>3, <1>4, <1>6, <1>7 DEF Life!Wake
<1>9. QED
  BY <1>8, Zenon

\* One connection's step that changes what a reader sees of it, if anything: no call.
LEMMA Moves ==
    ASSUME NEW c \in Conns, \A d \in Conns \ {c} : pc'[d] = pc[d],
           \A d \in Conns \ {c} : d \in queues' <=> d \in queues,
           InHandler(c) = FALSE, InHandler(c)' = FALSE
    PROVE  SameHandling /\ \A d \in Conns \ {c} : Phase(d)' = Phase(d)
<1>1. \A d \in Conns \ {c} : Phase(d)' = Phase(d) /\ InHandler(d)' = InHandler(d)
  BY Still
<1>2. QED
  BY <1>1, Zenon DEF SameHandling

\* The steps at the two ends of a connection's life.
LEMMA EndsOfLife ==
    ASSUME LifeInv, NEW c \in Conns,
           Connect(c) \/ Refuse(c) \/ AcceptFails(c) \/ WorkerStart(c) \/ CloseSocket(c)
    PROVE  Life!Next
<1> USE Names DEF LifeInv, TypeOK, PcOK, DataOK, At, Goto, Step
<1>0. UNCHANGED late
  BY DEF Connect, Refuse, AcceptFails, WorkerStart, CloseSocket
<1>1. /\ \A d \in Conns \ {c} : pc'[d] = pc[d]
      /\ \A d \in Conns \ {c} : d \in queues' <=> d \in queues
  <2>1. CASE Connect(c) \/ Refuse(c) \/ AcceptFails(c) \/ CloseSocket(c)
    BY <2>1 DEF Connect, Refuse, AcceptFails, CloseSocket, WorkerMoves
  <2>2. CASE WorkerStart(c)
    BY <2>2 DEF WorkerStart
  <2>3. QED
    BY <2>1, <2>2
<1>2. /\ pc[c] \in {"new", "backlog", "queued", "close"}
      /\ pc'[c] \in {"backlog", "refused", "closed", "top", "retStore", "release"}
  BY DEF Connect, Refuse, AcceptFails, WorkerStart, CloseSocket
<1>3. InHandler(c) = FALSE /\ InHandler(c)' = FALSE
  BY <1>2 DEF InHandler
<1>4. SameHandling /\ \A d \in Conns \ {c} : Phase(d)' = Phase(d)
  BY <1>1, <1>3, Moves
<1>5. SameQuiet
  <2>1. CASE UNCHANGED stat
    BY <2>1 DEF SameQuiet, Suspended
  <2>2. CASE WorkerStart(c)
    <3>1. stat[c] = Idle /\ stat' = [stat EXCEPT ![c] = Running]
      BY <2>2 DEF WorkerStart, QueueInv, Unstarted
    <3>2. QED
      BY <3>1, StatusesDiffer DEF SameQuiet, Suspended
  <2>3. QED
    BY <2>1, <2>2 DEF Connect, Refuse, AcceptFails, CloseSocket
<1>6. CASE Connect(c)
  <2>1. Phase(c) = "none" /\ Phase(c)' = "pending"
    BY <1>6, Phases, PhasesNext DEF Connect
  <2>2. Life!Becomes(c, "none", "pending")
    BY <1>0, <1>4, <1>5, <2>1, Becomes
  <2>3. QED
    BY <2>2, Zenon DEF Life!Next, Life!Arrive
<1>7. CASE Refuse(c) \/ AcceptFails(c)
  <2>1. pc[c] = "backlog" /\ pc'[c] \in {"refused", "closed"} /\ queues' = queues
    BY <1>7 DEF Refuse, AcceptFails
  <2>2. c \notin queues
    BY <2>1 DEF QueueInv, Unstarted
  <2>3. Phase(c) = "pending" /\ Phase(c)' = "refused"
    BY <2>1, <2>2, Phases, PhasesNext
  <2>4. Life!Becomes(c, "pending", "refused")
    BY <1>0, <1>4, <1>5, <2>3, Becomes
  <2>5. QED
    BY <2>4, Zenon DEF Life!Next, Life!Refuse
<1>8. CASE WorkerStart(c)
  <2>1. pc[c] = "queued" /\ pc'[c] \in {"top", "retStore"}
    BY <1>8 DEF WorkerStart
  <2>2. Phase(c) = "pending" /\ Phase(c)' = "live"
    BY <2>1, Phases, PhasesNext DEF LivePc, LoopPc
  <2>3. Life!Becomes(c, "pending", "live")
    BY <1>0, <1>4, <1>5, <2>2, Becomes
  <2>4. QED
    BY <2>3, Zenon DEF Life!Next, Life!Admit
<1>9. CASE CloseSocket(c)
  <2>1. pc[c] = "close" /\ pc'[c] = "release"
    BY <1>9 DEF CloseSocket
  <2>2. Phase(c) = "live" /\ Phase(c)' = "down"
    BY <2>1, Phases, PhasesNext DEF LivePc, DownPc, ReleasePc
  <2>3. Life!Becomes(c, "live", "down")
    BY <1>0, <1>4, <1>5, <2>2, Becomes
  <2>4. [d \in Conns |-> InHandler(d)][c] = FALSE
    BY <1>3, Zenon
  <2>5. QED
    BY <2>3, <2>4, Zenon DEF Life!Next, Life!Close, InHandler
<1>10. QED
  BY <1>6, <1>7, <1>8, <1>9

\* A step of a worker within its life, or after it.
LEMMA WithinLife ==
    ASSUME LifeInv, NEW c \in Conns,
           \/ Accept(c) \/ RetainStore(c) \/ Top(c) \/ Switch(c) \/ Resume(c)
           \/ Leave(c) \/ DecStore(c) \/ ReleaseActs(c)
    PROVE  SamePhase /\ SameHandling /\ UNCHANGED late
<1> USE Names DEF LifeInv, TypeOK, PcOK, DataOK, At, Goto, Step
<1>0. UNCHANGED late
  BY DEF Accept, ListenerMoves, RetainStore, Top, Switch, Resume, Leave, DecStore, ReleaseActs,
         SXReleaseLoad, SXReleaseStore, SXReleaseTest
<1>1. queues' = queues
  BY DEF Accept, ListenerMoves, RetainStore, Top, Switch, Resume, Leave, DecStore, ReleaseActs,
         SXReleaseLoad, SXReleaseStore, SXReleaseTest, WorkerMoves, QueueRefCount
<1>2. \A d \in Conns \ {c} : pc'[d] = pc[d]
  BY DEF Accept, RetainStore, Top, Switch, Resume, Leave, DecStore, ReleaseActs,
         SXReleaseLoad, SXReleaseStore, SXReleaseTest
<1>3. InHandler(c) = FALSE /\ InHandler(c)' = FALSE /\ Phase(c)' = Phase(c)
  <2>1. CASE Accept(c)
    <3>1. pc[c] = "backlog" /\ pc'[c] = "queued"
      BY <2>1 DEF Accept
    <3>2. QED
      BY <3>1, Phases, PhasesNext DEF InHandler
  <2>2. CASE RetainStore(c) \/ Top(c) \/ Switch(c) \/ Resume(c)
    <3>1. Branch(stat[c]) \in {"recv", "resume", "srecv", "close"}
      BY DEF Branch
    <3>2. /\ pc[c] \in {"retStore", "top", "switch", "resume"}
          /\ pc'[c] \in {"top", "switch", "recv", "resume", "srecv", "close"}
      BY <2>2, <3>1 DEF RetainStore, Top, Switch, Resume
    <3>3. Phase(c) = "live" /\ Phase(c)' = "live"
      BY <3>2, Phases, PhasesNext DEF LivePc, LoopPc
    <3>4. QED
      BY <3>2, <3>3 DEF InHandler
  <2>3. CASE Leave(c) \/ DecStore(c) \/ ReleaseActs(c)
    <3>1. /\ pc[c] \in DownPc /\ pc'[c] \in DownPc \cup {"closed"}
      BY <2>3 DEF Leave, DecStore, ReleaseActs, SXReleaseLoad, SXReleaseStore, SXReleaseTest,
                  AfterRelease, DownPc, ReleasePc
    <3>2. c \in queues
      BY <3>1 DEF QueueInv, Unstarted, DownPc, ReleasePc
    <3>3. Phase(c) = "down" /\ Phase(c)' = "down"
      BY <1>1, <3>1, <3>2, Phases, PhasesNext
    <3>4. QED
      BY <3>1, <3>3 DEF InHandler, DownPc, ReleasePc
  <2>4. QED
    BY <2>1, <2>2, <2>3
<1>4. SameHandling /\ \A d \in Conns \ {c} : Phase(d)' = Phase(d)
  BY <1>1, <1>2, <1>3, Moves
<1>5. QED
  BY <1>0, <1>3, <1>4 DEF SamePhase

LEMMA StepImplements == LifeInv /\ [Next]_vars => [Life!Next]_Life!vars
<1> SUFFICES ASSUME LifeInv, [Next]_vars PROVE Life!Next \/ UNCHANGED Life!vars
  BY Zenon
<1> USE Names
<1>0. ASSUME \A c \in Conns : pc'[c] = pc[c], UNCHANGED queues PROVE SamePhase /\ SameHandling
  BY <1>0, Still DEF SamePhase, SameHandling
\* Steps of the program and of the accept loop alone.
<1>1. ASSUME SamePhase, SameHandling, UNCHANGED late PROVE Life!Next
  BY <1>1, Hushes DEF Life!Next
<1>2. CASE UNCHANGED vars
  BY <1>0, <1>1, <1>2 DEF vars
<1>3. CASE SXServerStart \/ SXKillServer \/ Terminate \/ OwnerRelease
  BY <1>0, <1>1, <1>3
     DEF SXServerStart, SXKillServer, Terminate, OwnerRelease, LifeInv, TypeOK, PcOK, Step, Goto
<1>4. CASE StatusStore
  <2>1. CASE app[2] = Resuming
    BY <1>4, <2>1, Wakes DEF Life!Next
  <2>2. CASE app[2] # Resuming
    <3>1. UNCHANGED <<pc, queues>>
      BY <1>4 DEF StatusStore
    <3>2. UNCHANGED late
      BY <1>4, <2>2 DEF StatusStore, LifeInv, TypeOK, DataOK
    <3>3. QED
      BY <1>0, <1>1, <3>1, <3>2
  <2>3. QED
    BY <2>1, <2>2
<1>5. ASSUME NEW o \in Managed, SXSuspendObject(o) \/ SXResumeObject(o) PROVE Life!Next
  BY <1>0, <1>1, <1>5 DEF SXSuspendObject, SXResumeObject
<1>6. CASE DidStart \/ While \/ Check \/ Guests \/ IncLoad \/ IncStore \/ Stop \/ DidKill
  <2>1. /\ \E l : pc' = [pc EXCEPT ![Listener] = l]
        /\ UNCHANGED <<queues, late>>
    BY <1>6 DEF DidStart, While, Check, Guests, IncLoad, IncStore, Stop, DidKill, ListenerMoves,
                Step, Goto
  <2>2. QED
    BY <1>0, <1>1, <2>1 DEF LifeInv, TypeOK, PcOK
<1>7. ASSUME NEW t \in Threads \ Conns, ReleaseActs(t) PROVE Life!Next
  <2>1. /\ \E l : pc' = [pc EXCEPT ![t] = l]
        /\ UNCHANGED <<queues, late>>
    BY <1>7 DEF ReleaseActs, SXReleaseLoad, SXReleaseStore, SXReleaseTest, Step, Goto
  <2>2. QED
    BY <1>0, <1>1, <2>1 DEF LifeInv, TypeOK, PcOK
\* Steps of a peer and of a worker.
<1>8. ASSUME NEW c \in Conns, Send(c) \/ Hangup(c) PROVE Life!Next
  BY <1>0, <1>1, <1>8 DEF Send, Hangup
<1>9. ASSUME NEW c \in Conns,
             Connect(c) \/ Refuse(c) \/ AcceptFails(c) \/ WorkerStart(c) \/ CloseSocket(c)
      PROVE  Life!Next
  BY <1>9, EndsOfLife
<1>10. ASSUME NEW c \in Conns,
              \/ Accept(c) \/ RetainStore(c) \/ Top(c) \/ Switch(c) \/ Resume(c)
              \/ Leave(c) \/ DecStore(c) \/ ReleaseActs(c)
       PROVE  Life!Next
  BY <1>1, <1>10, WithinLife
<1>11. ASSUME NEW c \in Conns, Recv(c) \/ SuspendedRecv(c) PROVE Life!Next
  <2>1. /\ UNCHANGED <<stat, queues>> /\ pc[c] \in {"recv", "srecv"}
        /\ \/ (Goto(c, "close") \/ Goto(c, "top")) /\ UNCHANGED late
           \/ (Goto(c, "data") \/ Goto(c, "eof")) /\ Deliver(c) /\ late[c] = 0
    BY <1>11, Calls DEF LifeInv, TypeOK, LateInv
  <2>2. CASE (Goto(c, "close") \/ Goto(c, "top")) /\ UNCHANGED late
    <3>1. pc'[c] \in {"close", "top"} /\ \A d \in Conns \ {c} : pc'[d] = pc[d]
      BY <2>2 DEF Goto, LifeInv, TypeOK, PcOK
    <3>2. InHandler(c) = FALSE /\ InHandler(c)' = FALSE
      BY <2>1, <3>1 DEF InHandler
    <3>3. SameHandling /\ \A d \in Conns \ {c} : Phase(d)' = Phase(d)
      BY <2>1, <3>1, <3>2, Moves
    <3>4. Phase(c)' = Phase(c)
      BY <2>1, <3>1, Phases, PhasesNext DEF LivePc, LoopPc
    <3>5. QED
      BY <1>1, <2>2, <3>3, <3>4 DEF SamePhase
  <2>3. CASE (Goto(c, "data") \/ Goto(c, "eof")) /\ Deliver(c) /\ late[c] = 0
    BY <2>1, <2>3, Begins, Zenon DEF Life!Next
  <2>4. QED
    BY <2>1, <2>2, <2>3
<1>12. ASSUME NEW c \in Conns, HandlerReturns(c) PROVE Life!Next
  BY <1>12, Ends, Zenon DEF Life!Next
<1>13. QED
  BY <1>2, <1>3, <1>4, <1>5, <1>6, <1>7, <1>8, <1>9, <1>10, <1>11, <1>12, NextCases
     DEF ReleaseActs

\* For any number of connections, any max_guest and whatever the program suspends, resumes
\* and ends, accept loop and workers implement ConnLife (SXServer.c:191-333).
THEOREM ServerImplementsConnLife == Spec => ImplementsConnLife
<1>1. Init => LifeInv
  BY TypeInit, RefInit, QueueInit, LateInit DEF LifeInv
<1>2. LifeInv /\ [Next]_vars => LifeInv'
  BY PcNext, FlagsNext, NetNext, DataNext, RefNext, QueueNext, LateNext DEF LifeInv, TypeOK
<1>3. QED
  BY <1>1, <1>2, InitImplements, StepImplements, PTL DEF Spec, ImplementsConnLife, Life!Spec
=============================================================================
