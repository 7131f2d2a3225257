-------------------------- MODULE SXClient_proofs --------------------------
(***************************************************************************)
(* Proofs about SXClient, for any number of threads of the program.        *)
(***************************************************************************)
EXTENDS SXClient, FiniteSetTheorems, SequenceTheorems, TLAPS

\* The disjuncts of Next, flattened.
LEMMA NextCases ==
    ASSUME Next
    PROVE  \/ SXStartClient
           \/ \E a \in Apps : \/ SXSuspendObject(a) \/ SXResumeObject(a) \/ StatusStore(a)
                              \/ Terminate(a) \/ AppRelease(a)
           \/ \E t \in Threads : SXReleaseLoad(t) \/ SXReleaseStore(t) \/ SXReleaseTest(t)
           \/ Hangup \/ \E n \in Lengths : Send(n)
           \/ ~freed /\ (Begin \/ Switch \/ Resume \/ Recv \/ SuspendedRecv \/ HandlerReturns)
           \/ ~freed /\ (While \/ Exit \/ DidDisconnect)
  BY DEF Next, Program, Peer, BlockStep, SXRelease, Threads

-----------------------------------------------------------------------------
(* Type correctness, and where each thread can be.                         *)

\* TypeOK without the fields of the loop: what the arguments about counts need.
Control ==
    /\ status \in Status /\ kind \in Kinds
    /\ pc \in [Threads -> {"idle"} \cup BlockPc \cup ReleasePc]
    /\ pc[Block] \in BlockPc \cup ReleasePc
    /\ \A a \in Apps : pc[a] \in {"idle"} \cup ReleasePc
    /\ reg \in [Threads -> Int]
    /\ ref \in Int /\ lost \in BOOLEAN /\ freed \in BOOLEAN
    /\ sock \in {"open", "freed", "twice"} /\ kept \in BOOLEAN
    /\ pend \in [Apps -> {<<>>, <<Suspend>>, <<Resuming>>}]

\* ... and those fields.
Data ==
    /\ s \in Nat /\ suspended \in BOOLEAN
    /\ inbox \in Seq(Lengths) /\ peer \in {"open", "fin", "rst"}
    /\ call \in {<<>>} \cup (Nat \X (Lengths \cup {0}))
    /\ late \in Nat

LEMMA TypeParts == TypeOK <=> Control /\ Data
  BY DEF TypeOK, Control, Data

LEMMA StatusCodes == {Idle, Running, Resuming, Suspend, ShouldTerminate} \subseteq Status
  BY DEF Status

LEMMA ControlInit == Init => Control
<1> SUFFICES ASSUME Init PROVE Control
  OBVIOUS
<1>1. pc \in [Threads -> {"idle"} \cup BlockPc \cup ReleasePc]
  BY DEF Init, BlockPc
<1>2. pc[Block] \in BlockPc \cup ReleasePc /\ \A a \in Apps : pc[a] \in {"idle"} \cup ReleasePc
  BY SXClientAssumption DEF Init, BlockPc, Threads
<1>3. kept \in BOOLEAN /\ ref \in Int
  BY SXClientAssumption DEF Init
<1>4. pend \in [Apps -> {<<>>, <<Suspend>>, <<Resuming>>}]
  BY DEF Init
<1>5. status \in Status /\ kind \in Kinds
  BY StatusCodes, Zenon DEF Init
<1>6. reg \in [Threads -> Int]
  BY DEF Init
<1>7. lost \in BOOLEAN /\ freed \in BOOLEAN /\ sock \in {"open", "freed", "twice"}
  BY Zenon DEF Init
<1>8. QED
  BY <1>1, <1>2, <1>3, <1>4, <1>5, <1>6, <1>7, Zenon DEF Control

LEMMA ControlNext == Control /\ [Next]_vars => Control'
<1> SUFFICES ASSUME Control, [Next]_vars PROVE Control'
  OBVIOUS
<1> USE StatusCodes DEF Control, At, Goto, Step, clientVars, loopVars, BlockMoves
<1> Block \in Threads /\ Apps \subseteq Threads /\ Block \notin Apps /\ \A t \in Threads : t \in Apps \/ t = Block
  BY SXClientAssumption DEF Threads
<1>1. CASE UNCHANGED vars
  BY <1>1 DEF vars
<1>2. CASE SXStartClient
  BY <1>2 DEF SXStartClient, BlockPc
<1>3. ASSUME NEW a \in Apps, SXSuspendObject(a) \/ SXResumeObject(a) \/ Terminate(a)
      PROVE  Control'
  BY <1>3 DEF SXSuspendObject, SXResumeObject, Terminate
<1>4. ASSUME NEW a \in Apps, StatusStore(a) PROVE Control'
  <2>1. pend[a] \in {<<Suspend>>, <<Resuming>>}
    BY <1>4 DEF StatusStore
  <2>2. status' \in Status
    BY <1>4, <2>1 DEF StatusStore
  <2>3. QED
    BY <1>4, <2>2 DEF StatusStore
<1>5. ASSUME NEW a \in Apps, AppRelease(a) PROVE Control'
  BY <1>5 DEF AppRelease, ReleasePc
<1>6. ASSUME NEW t \in Threads, SXReleaseLoad(t) PROVE Control'
  BY <1>6 DEF SXReleaseLoad, AfterRelease, ReleasePc, BlockPc, Ref!Load
<1>7. ASSUME NEW t \in Threads, SXReleaseStore(t) PROVE Control'
  BY <1>7 DEF SXReleaseStore, ReleasePc, Ref!StoreAndKeep, Ref!Overwrite
<1>8. ASSUME NEW t \in Threads, SXReleaseTest(t) PROVE Control'
  <2>1. sock' \in {"open", "freed", "twice"} /\ freed' \in BOOLEAN
    BY <1>8 DEF SXReleaseTest, SXFreeClient
  <2>2. QED
    BY <1>8, <2>1 DEF SXReleaseTest, AfterRelease, ReleasePc, BlockPc
<1>9. CASE Hangup \/ \E n \in Lengths : Send(n)
  BY <1>9 DEF Hangup, Send
<1>10. CASE Begin \/ Switch \/ Resume
  <2>1. status' \in Status /\ pc'[Block] \in BlockPc /\ pc' = [pc EXCEPT ![Block] = pc'[Block]]
    BY <1>10 DEF Begin, Switch, Resume, Branch, BlockPc, LoopPc
  <2>2. UNCHANGED <<reg, kind, freed, sock, kept, ref, lost, pend>>
    BY <1>10 DEF Begin, Switch, Resume
  <2>3. QED
    BY <2>1, <2>2
<1>11. CASE Recv \/ SuspendedRecv \/ HandlerReturns
  BY <1>11 DEF Recv, SuspendedRecv, HandlerReturns, SuspendedTarget, BlockPc, LoopPc
<1>12. CASE While \/ Exit \/ DidDisconnect
  BY <1>12 DEF While, Exit, DidDisconnect, BlockPc, LoopPc, ReleasePc
<1>13. QED
  BY <1>1, <1>2, <1>3, <1>4, <1>5, <1>6, <1>7, <1>8, <1>9, <1>10, <1>11, <1>12, NextCases

LEMMA DataInit == Init => Data
<1> SUFFICES ASSUME Init PROVE Data
  OBVIOUS
<1>1. inbox \in Seq(Lengths)
  BY EmptySeq DEF Init
<1>2. call \in {<<>>} \cup (Nat \X (Lengths \cup {0}))
  BY Zenon DEF Init
<1>3. s \in Nat /\ suspended \in BOOLEAN /\ peer \in {"open", "fin", "rst"} /\ late \in Nat
  BY DEF Init
<1>4. QED
  BY <1>1, <1>2, <1>3, Zenon DEF Data

LEMMA DataNext == Control /\ Data /\ [Next]_vars => Data'
<1> SUFFICES ASSUME Control, Data, [Next]_vars PROVE Data'
  OBVIOUS
<1> USE SXClientAssumption DEF Data, loopVars, BlockMoves
<1>1. CASE UNCHANGED vars
  BY <1>1 DEF vars
<1>2. CASE SXStartClient
  BY <1>2 DEF SXStartClient
<1>3. ASSUME NEW a \in Apps,
             \/ SXSuspendObject(a) \/ SXResumeObject(a) \/ StatusStore(a)
             \/ Terminate(a) \/ AppRelease(a)
      PROVE  Data'
  BY <1>3 DEF SXSuspendObject, SXResumeObject, StatusStore, Terminate, AppRelease
<1>4. ASSUME NEW t \in Threads, SXReleaseLoad(t) \/ SXReleaseStore(t) \/ SXReleaseTest(t)
      PROVE  Data'
  BY <1>4 DEF SXReleaseLoad, SXReleaseStore, SXReleaseTest
<1>5. CASE Hangup
  BY <1>5, EmptySeq DEF Hangup
<1>6. ASSUME NEW n \in Lengths, Send(n) PROVE Data'
  BY <1>6, AppendProperties DEF Send
<1>7. CASE Begin \/ Switch \/ Resume \/ While \/ Exit \/ DidDisconnect
  <2>1. UNCHANGED <<inbox, peer, call, late>>
    BY <1>7 DEF Begin, Switch, Resume, While, Exit, DidDisconnect
  <2>2. s' \in Nat
    BY <1>7 DEF Begin, Switch, Resume, While, Exit, DidDisconnect
  <2>3. suspended' \in {suspended, TRUE}
    BY <1>7, Zenon DEF Begin, Switch, Resume, While, Exit, DidDisconnect
  <2>4. QED
    BY <2>1, <2>2, <2>3, Zenon
<1>8. CASE Recv \/ SuspendedRecv
  <2>1. inbox # <<>> => Head(inbox) \in Lengths /\ Head(inbox) \in Nat /\ Tail(inbox) \in Seq(Lengths)
    BY HeadTailProperties
  <2>2. inbox' \in Seq(Lengths) /\ peer' = peer /\ suspended' = suspended
    BY <1>8, <2>1 DEF Recv, SuspendedRecv, Take, AtEof, Broken
  <2>3. s' \in Nat
    BY <1>8, <2>1 DEF Recv, SuspendedRecv, Take
  <2>4. call' \in {<<>>} \cup (Nat \X (Lengths \cup {0}))
    BY <1>8, <2>1, <2>3 DEF Recv, SuspendedRecv, Take, Deliver
  <2>5. late' \in Nat
    BY <1>8 DEF Recv, SuspendedRecv, Deliver
  <2>6. QED
    BY <2>2, <2>3, <2>4, <2>5
<1>9. CASE HandlerReturns
  BY <1>9 DEF HandlerReturns
<1>10. QED
  BY <1>1, <1>2, <1>3, <1>4, <1>5, <1>6, <1>7, <1>8, <1>9, NextCases

\* Every variable of the client keeps its type (SXClient.h, SXClient.c:84-150).
THEOREM TypeCorrect == Spec => []TypeOK
<1>1. Init => Control /\ Data
  BY ControlInit, DataInit
<1>2. Control /\ Data /\ [Next]_vars => (Control /\ Data)'
  BY ControlNext, DataNext
<1>3. QED
  BY <1>1, <1>2, TypeParts, PTL DEF Spec

-----------------------------------------------------------------------------
(* The reference count.  One thread of the program at most gives back the   *)
(* program's reference, so that there are never more than two to count.    *)

BlockHolds == pc[Block] \notin {"relTest", "closed"}
AppHolds   == kept \/ \E a \in Apps : pc[a] \in {"release", "relStore"}

Ones(p) == IF p THEN 1 ELSE 0

\* Who releases.
OneReleases ==
    /\ \A a, b \in Apps : pc[a] # "idle" /\ pc[b] # "idle" => a = b
    /\ kept => \A a \in Apps : pc[a] = "idle"

\* The count, and what a thread that has given its reference back remembers of it.
Counted ==
    /\ ref = Ones(BlockHolds) + Ones(AppHolds)
    /\ \A t \in Threads : pc[t] = "relTest" => reg[t] >= ref

\* The socket after the block's release and after SXFreeClient's.
SockFollows ==
    /\ pc[Block] \in {"didDisconnect", "closed"} \cup ReleasePc => sock # "open"
    /\ sock = "twice" => freed
    /\ freed => sock = "twice" /\ ref = 0

CountInv == OneReleases /\ (~lost => Counted /\ SockFollows)

LEMMA CountInit == Init => CountInv
<1> SUFFICES ASSUME Init PROVE CountInv
  OBVIOUS
<1>1. pc[Block] = "created" /\ \A a \in Apps : pc[a] = "idle"
  BY SXClientAssumption DEF Init, Threads
<1>2. kept = Keeps /\ ref = (IF Keeps THEN 2 ELSE 1) /\ sock = "open" /\ ~freed
  BY DEF Init
<1>3. \A t \in Threads : pc[t] # "relTest"
  BY <1>1 DEF Threads
<1>4. QED
  BY <1>1, <1>2, <1>3, SXClientAssumption
     DEF CountInv, OneReleases, Counted, SockFollows, BlockHolds, AppHolds, Ones, ReleasePc

\* A step of the block that neither releases nor frees leaves the count as it is.
LEMMA BlockKeeps ==
    ASSUME Control, CountInv, UNCHANGED <<reg, ref, lost, kept, freed>>,
           NEW l, pc' = [pc EXCEPT ![Block] = l],
           pc[Block] \notin {"relTest", "closed"}, l \notin {"relTest", "closed"},
           \/ /\ l \notin {"didDisconnect"} \cup ReleasePc
              /\ UNCHANGED sock
           \/ ~freed /\ sock' = "freed"
           \/ pc[Block] = "didDisconnect" /\ UNCHANGED sock
    PROVE  CountInv'
<1>1. pc'[Block] = l /\ \A a \in Apps : pc'[a] = pc[a]
  BY SXClientAssumption DEF Control, Threads
<1>2. \A t \in Threads : pc'[t] = "relTest" => pc[t] = "relTest"
  BY SXClientAssumption DEF Control, Threads
<1>3. OneReleases'
  BY <1>1 DEF CountInv, OneReleases
<1>4. ASSUME ~lost PROVE (Counted /\ SockFollows)'
  <2>1. BlockHolds' = BlockHolds /\ AppHolds' = AppHolds
    BY <1>1 DEF BlockHolds, AppHolds
  <2>2. Counted'
    BY <1>2, <1>4, <2>1 DEF CountInv, Counted
  <2>3. SockFollows'
    BY <1>1, <1>4 DEF CountInv, SockFollows, ReleasePc
  <2>4. QED
    BY <2>2, <2>3
<1>5. QED
  BY <1>3, <1>4 DEF CountInv

LEMMA CountNext == Control /\ CountInv /\ [Next]_vars => CountInv'
<1> SUFFICES ASSUME Control, CountInv, [Next]_vars PROVE CountInv'
  OBVIOUS
<1> USE DEF At, Goto, Step
<1> Block \in Threads /\ Apps \subseteq Threads /\ Block \notin Apps /\ \A t \in Threads : t \in Apps \/ t = Block
  BY SXClientAssumption DEF Threads
\* What leaves the counter, the places and the socket alone.
<1>0. ASSUME UNCHANGED <<pc, reg, ref, lost, kept, freed, sock>> PROVE CountInv'
  BY <1>0 DEF CountInv, OneReleases, Counted, SockFollows, BlockHolds, AppHolds
<1>1. CASE UNCHANGED vars
  BY <1>0, <1>1 DEF vars
<1>2. ASSUME NEW a \in Apps,
             SXSuspendObject(a) \/ SXResumeObject(a) \/ StatusStore(a) \/ Terminate(a)
      PROVE  CountInv'
  BY <1>0, <1>2 DEF SXSuspendObject, SXResumeObject, StatusStore, Terminate, clientVars
<1>3. CASE Hangup \/ \E n \in Lengths : Send(n)
  BY <1>0, <1>3 DEF Hangup, Send, clientVars
\* What moves the block and nothing else.
<1>4. CASE SXStartClient
  <2>1. PICK l \in {"crashed", "queued"} : pc' = [pc EXCEPT ![Block] = l]
    BY <1>4 DEF SXStartClient
  <2>2. pc[Block] = "created" /\ UNCHANGED <<reg, ref, lost, kept, freed, sock>>
    BY <1>4 DEF SXStartClient, clientVars
  <2>3. QED
    BY <2>1, <2>2, BlockKeeps DEF ReleasePc
<1>5. CASE Begin \/ Switch \/ Resume
  BY <1>5, BlockKeeps DEF Begin, Switch, Resume, Branch, BlockMoves, clientVars, ReleasePc
<1>6. CASE Recv \/ SuspendedRecv \/ HandlerReturns
  BY <1>6, BlockKeeps DEF Recv, SuspendedRecv, SuspendedTarget, HandlerReturns, BlockMoves,
                          clientVars, ReleasePc
<1>7. CASE ~freed /\ (While \/ Exit \/ DidDisconnect)
  BY <1>7, BlockKeeps DEF While, Exit, DidDisconnect, BlockMoves, clientVars, ReleasePc
\* The program gives its reference up: it is the same one in another place.
<1>8. ASSUME NEW a \in Apps, AppRelease(a) PROVE CountInv'
  <2>1. /\ kept /\ ~kept' /\ pc' = [pc EXCEPT ![a] = "release"]
        /\ UNCHANGED <<reg, ref, lost, freed, sock>>
    BY <1>8 DEF AppRelease
  <2>2. \A b \in Apps : pc[b] = "idle"
    BY <2>1 DEF CountInv, OneReleases
  <2>3. pc'[Block] = pc[Block] /\ pc'[a] = "release" /\ \A b \in Apps : b # a => pc'[b] = "idle"
    BY <2>1, <2>2 DEF Control
  <2>4. AppHolds /\ AppHolds' /\ BlockHolds' = BlockHolds
    BY <2>1, <2>3 DEF AppHolds, BlockHolds
  <2>5. OneReleases'
    BY <2>1, <2>3 DEF OneReleases
  <2>6. ~lost => Counted'
    BY <2>1, <2>3, <2>4 DEF CountInv, Counted
  <2>7. ~lost => SockFollows'
    BY <2>1, <2>3 DEF CountInv, SockFollows
  <2>8. QED
    BY <2>1, <2>5, <2>6, <2>7 DEF CountInv
\* A release that has begun and not stored holds its reference still.
<1>9. ASSUME NEW t \in Threads, SXReleaseLoad(t) PROVE CountInv'
  <2>1. /\ pc[t] = "release" /\ ~freed /\ UNCHANGED <<ref, lost, kept, freed, sock>>
        /\ \/ ref = Weak /\ pc' = [pc EXCEPT ![t] = AfterRelease(t)] /\ UNCHANGED reg
           \/ pc' = [pc EXCEPT ![t] = "relStore"] /\ reg' = [reg EXCEPT ![t] = ref]
    BY <1>9 DEF SXReleaseLoad, clientVars, Ref!Load
  <2>2. OneReleases'
    BY <2>1 DEF CountInv, OneReleases, Control, AfterRelease
  <2>3. ASSUME ~lost PROVE (Counted /\ SockFollows)'
    <3>1. ref # Weak
      BY <2>3, SXClientAssumption DEF CountInv, Counted, Ones
    <3>2. pc' = [pc EXCEPT ![t] = "relStore"] /\ reg' = [reg EXCEPT ![t] = ref]
      BY <2>1, <3>1
    <3>3. BlockHolds' = BlockHolds /\ AppHolds' = AppHolds
      BY <2>1, <3>2 DEF Control, BlockHolds, AppHolds
    <3>4. Counted'
      BY <2>1, <2>3, <3>2, <3>3 DEF Control, CountInv, Counted
    <3>5. SockFollows'
      BY <2>1, <2>3, <3>2 DEF Control, CountInv, SockFollows, ReleasePc
    <3>6. QED
      BY <3>4, <3>5
  <2>4. QED
    BY <2>1, <2>2, <2>3 DEF CountInv
\* Its store takes one from the count, and the thread from those that hold.
<1>10. ASSUME NEW t \in Threads, SXReleaseStore(t) PROVE CountInv'
  <2>1. /\ pc[t] = "relStore" /\ pc' = [pc EXCEPT ![t] = "relTest"] /\ ~freed
        /\ UNCHANGED <<kept, freed, sock>>
        /\ ref' = reg[t] + -1 /\ reg' = [reg EXCEPT ![t] = @ + -1]
        /\ lost' = (lost \/ ref # reg[t])
    BY <1>10 DEF SXReleaseStore, clientVars, Ref!StoreAndKeep, Ref!Overwrite
  <2>2. OneReleases'
    BY <2>1 DEF CountInv, OneReleases, Control
  <2>3. ASSUME ~lost' PROVE (Counted /\ SockFollows)'
    <3>1. ~lost /\ ref' = ref - 1 /\ reg'[t] = ref'
      BY <2>1, <2>3 DEF Control
    <3>2. CASE t = Block
      <4>1. BlockHolds /\ ~BlockHolds' /\ AppHolds' = AppHolds
        BY <2>1, <3>2 DEF Control, BlockHolds, AppHolds
      <4>2. QED
        BY <2>1, <3>1, <4>1 DEF Control, CountInv, Counted, Ones, SockFollows, ReleasePc
    <3>3. CASE t \in Apps
      <4>1. AppHolds /\ ~AppHolds' /\ BlockHolds' = BlockHolds
        BY <2>1, <3>3 DEF Control, CountInv, OneReleases, BlockHolds, AppHolds
      <4>2. QED
        BY <2>1, <3>1, <3>3, <4>1 DEF Control, CountInv, Counted, Ones, SockFollows, ReleasePc
    <3>4. QED
      BY <3>2, <3>3
  <2>4. QED
    BY <2>2, <2>3 DEF CountInv
\* The one that finds zero frees: by then nobody holds, so the block has released the socket.
<1>11. ASSUME NEW t \in Threads, SXReleaseTest(t) PROVE CountInv'
  <2>1. /\ pc[t] = "relTest" /\ pc' = [pc EXCEPT ![t] = AfterRelease(t)] /\ ~freed
        /\ UNCHANGED <<kept, ref, lost>> /\ reg' = [reg EXCEPT ![t] = 0]
        /\ \/ freed' = freed /\ sock' = sock
           \/ /\ 0 \in {ref, reg[t]} /\ freed' = TRUE
              /\ sock' = IF sock = "open" THEN "freed" ELSE "twice"
    BY <1>11 DEF SXReleaseTest, FreesZero, SXFreeClient
  <2>2. OneReleases'
    BY <2>1 DEF CountInv, OneReleases, Control, AfterRelease
  <2>3. ASSUME ~lost PROVE (Counted /\ SockFollows)'
    <3>1. BlockHolds' = BlockHolds /\ AppHolds' = AppHolds
      BY <2>1 DEF Control, BlockHolds, AppHolds, AfterRelease
    <3>2. Counted'
      BY <2>1, <2>3, <3>1 DEF Control, CountInv, Counted, AfterRelease
    <3>3. CASE UNCHANGED <<freed, sock>>
      BY <2>1, <2>3, <3>2, <3>3 DEF Control, CountInv, SockFollows, ReleasePc
    <3>4. CASE 0 \in {ref, reg[t]} /\ freed' = TRUE /\ sock' = IF sock = "open" THEN "freed" ELSE "twice"
      <4>1. ref = 0
        BY <2>1, <2>3, <3>4 DEF Control, CountInv, Counted, Ones
      <4>2. ~BlockHolds
        BY <2>3, <4>1 DEF CountInv, Counted, Ones
      <4>3. sock # "open"
        BY <2>3, <4>2 DEF CountInv, SockFollows, BlockHolds, ReleasePc
      <4>4. QED
        BY <2>1, <3>2, <3>4, <4>1, <4>3 DEF SockFollows
    <3>5. QED
      BY <2>1, <3>2, <3>3, <3>4
  <2>4. QED
    BY <2>1, <2>2, <2>3 DEF CountInv
<1>12. QED
  BY <1>1, <1>2, <1>3, <1>4, <1>5, <1>6, <1>7, <1>8, <1>9, <1>10, <1>11, NextCases

LEMMA OneMore ==
    ASSUME NEW S, IsFiniteSet(S), Cardinality(S) = 1, NEW x, x \notin S
    PROVE  Cardinality(S \cup {x}) = 2
  BY FS_AddElement

\* The set of RefAccounting has the size that BlockHolds and AppHolds say.
LEMMA HoldersCounted ==
    ASSUME Control, OneReleases
    PROVE  Cardinality(Holders) + (IF kept THEN 1 ELSE 0) = Ones(BlockHolds) + Ones(AppHolds)
<1> USE DEF Control
<1>1. Block \in Threads /\ Apps \subseteq Threads /\ Block \notin Apps /\ \A t \in Threads : t \in Apps \/ t = Block
  BY SXClientAssumption DEF Threads
<1> DEFINE A == {a \in Apps : pc[a] \in {"release", "relStore"}}
<1>2. Holders = A \cup (IF BlockHolds THEN {Block} ELSE {})
  BY <1>1 DEF Holders, BlockHolds, ReleasePc
<1>3. CASE A = {}
  <2>1. Ones(AppHolds) = IF kept THEN 1 ELSE 0
    BY <1>3 DEF AppHolds, Ones
  <2>2. Cardinality(Holders) = Ones(BlockHolds)
    <3>1. Holders = IF BlockHolds THEN {Block} ELSE {}
      BY <1>2, <1>3, Zenon
    <3>2. QED
      BY <3>1, FS_EmptySet, FS_Singleton DEF Ones
  <2>3. QED
    BY <2>1, <2>2 DEF Ones
<1>4. ASSUME NEW a \in A PROVE Cardinality(Holders) = Ones(BlockHolds) + 1 /\ ~kept /\ AppHolds
  <2>1. A = {a}
    BY <1>4 DEF OneReleases
  <2>2. ~kept /\ AppHolds
    BY <1>4 DEF OneReleases, AppHolds
  <2>3. a # Block
    BY <1>1, <1>4
  <2>4. CASE BlockHolds
    <3>1. Holders = {a, Block}
      BY <1>2, <2>1, <2>4
    <3>2. QED
      <4>1. Cardinality({a, Block}) = 2
        <5>1. IsFiniteSet({a}) /\ Cardinality({a}) = 1 /\ Block \notin {a}
          BY <2>3, FS_Singleton
        <5>2. Cardinality({a} \cup {Block}) = 2
          BY <5>1, OneMore, Zenon
        <5>3. {a, Block} = {a} \cup {Block}
          OBVIOUS
        <5>4. QED
          BY <5>2, <5>3, Zenon
      <4>2. QED
        BY <2>2, <2>4, <3>1, <4>1 DEF Ones
  <2>5. CASE ~BlockHolds
    <3>1. Holders = {a}
      BY <1>2, <2>1, <2>5
    <3>2. QED
      <4>1. Cardinality({a}) = 1
        BY FS_Singleton
      <4>2. QED
        BY <2>2, <2>5, <3>1, <4>1 DEF Ones
  <2>6. QED
    BY <2>4, <2>5
<1>5. CASE A # {}
  BY <1>4, <1>5 DEF Ones
<1>6. QED
  BY <1>3, <1>5

\* For every number of the program's threads the client's reference count is the number of
\* references not given back, until an unsynchronised SXRelease overwrites another
\* (sx_object.c:51-68, SXClient.c:146).
THEOREM RefAccountingHolds == Spec => []RefAccounting
<1>1. Init => Control /\ CountInv
  BY ControlInit, CountInit
<1>2. Control /\ CountInv /\ [Next]_vars => (Control /\ CountInv)'
  BY ControlNext, CountNext
<1>3. Control /\ CountInv => RefAccounting
  BY HoldersCounted DEF CountInv, Counted, RefAccounting
<1>4. QED
  BY <1>1, <1>2, <1>3, PTL DEF Spec

\* A program that keeps its own reference never holds a freed client, and a client that is
\* freed has had its socket released twice, until an update of the count is lost
\* (SXClient.c:35, 143, 146).
THEOREM KeptClientAliveHolds == Spec => []KeptClientAlive
<1>1. Init => Control /\ CountInv
  BY ControlInit, CountInit
<1>2. Control /\ CountInv /\ [Next]_vars => (Control /\ CountInv)'
  BY ControlNext, CountNext
<1>3. Control /\ CountInv => KeptClientAlive
  BY DEF Control, CountInv, Counted, SockFollows, AppHolds, Ones, KeptClientAlive
<1>4. QED
  BY <1>1, <1>2, <1>3, PTL DEF Spec

-----------------------------------------------------------------------------
(* Suspension, with one thread of the program at most.                     *)

OneThread == \A a, b \in Apps : a = b

\* What the block's place and the store that is pending say of the status.
StickInv ==
    /\ pc[Block] = "created" => status = Idle /\ \A a \in Apps : pend[a] = <<>>
    /\ pc[Block] = "resume" => status \in {Resuming, ShouldTerminate}
    /\ \A a \in Apps : pend[a] = <<Suspend>> => status \in {Idle, Running}

\* A call that began in a suspension: the connection is quiet or has been ended since.
LateInv ==
    /\ late \in {0, 1}
    /\ late = 1 => /\ status \in {Suspend, ShouldTerminate}
                   /\ pc[Block] \notin {"created", "queued", "recv", "resume"}

QuietInv == StickInv /\ LateInv

LEMMA StatusesDiffer ==
    /\ Idle # Running /\ Idle # Resuming /\ Idle # Suspend /\ Idle # ShouldTerminate
    /\ Running # Resuming /\ Running # Suspend /\ Running # ShouldTerminate
    /\ Resuming # Suspend /\ Resuming # ShouldTerminate /\ Suspend # ShouldTerminate
  BY DEF Idle, Running, Resuming, Suspend, ShouldTerminate

LEMMA SuspendChecked == ASSUME status \in Status, SuspendPasses(status)
                        PROVE  status \in {Idle, Running}
  BY DEF SuspendPasses, SXCheckCompatibleStatus, SX_SUCCESS, Status, Idle, Running, Resuming,
         Suspend, ShouldTerminate

LEMMA QuietInit == Init => QuietInv
<1> SUFFICES ASSUME Init PROVE QuietInv
  OBVIOUS
<1>1. pc[Block] = "created" /\ status = Idle /\ late = 0
  BY DEF Init, Threads
<1>2. \A a \in Apps : pend[a] = <<>>
  BY DEF Init
<1>3. QED
  BY <1>1, <1>2 DEF QuietInv, StickInv, LateInv

LEMMA QuietNext ==
    ASSUME OneThread, Control, QuietInv, [Next]_vars
    PROVE  QuietInv'
<1> USE StatusesDiffer DEF At, Goto, Step, QuietInv, StickInv, LateInv
<1> /\ Block \in Threads /\ \A a \in Apps : a \in Threads /\ a # Block
  BY SXClientAssumption DEF Threads
<1>0. ASSUME UNCHANGED <<status, pend, late>>,
             pc'[Block] \in {pc[Block]} \cup ReleasePc
                            \cup (BlockPc \ {"created", "queued", "recv", "resume"})
      PROVE  QuietInv'
  BY <1>0 DEF ReleasePc
<1>1. CASE UNCHANGED vars
  BY <1>0, <1>1 DEF vars
<1>2. CASE SXStartClient
  BY <1>2 DEF SXStartClient, loopVars, Control
<1>3. ASSUME NEW a \in Apps, SXSuspendObject(a) PROVE QuietInv'
  <2>1. /\ status \in {Idle, Running} /\ UNCHANGED <<status, pc, late>> /\ pc[Block] # "created"
        /\ pend' = [pend EXCEPT ![a] = <<Suspend>>]
    BY <1>3, SuspendChecked DEF SXSuspendObject, Usable, loopVars, Control
  <2>2. QED
    BY <2>1 DEF Control
<1>4. ASSUME NEW a \in Apps, SXResumeObject(a) PROVE QuietInv'
  <2>1. /\ UNCHANGED <<status, pc, late>> /\ pc[Block] # "created"
        /\ pend' = [pend EXCEPT ![a] = <<Resuming>>]
    BY <1>4 DEF SXResumeObject, Usable, loopVars
  <2>2. <<Resuming>> # <<Suspend>>
    OBVIOUS
  <2>3. QED
    BY <2>1, <2>2 DEF Control
<1>5. ASSUME NEW a \in Apps, StatusStore(a) PROVE QuietInv'
  <2>1. /\ pend[a] \in {<<Suspend>>, <<Resuming>>} /\ UNCHANGED pc
        /\ status' = pend[a][1] /\ late' = (IF pend[a][1] = Resuming THEN 0 ELSE late)
        /\ pend' = [pend EXCEPT ![a] = <<>>]
    BY <1>5 DEF StatusStore, Control
  <2>2. \A b \in Apps : pend'[b] = <<>>
    BY <2>1 DEF OneThread, Control
  <2>3. pc[Block] # "created"
    BY <2>1
  <2>4. CASE pend[a] = <<Suspend>>
    BY <2>1, <2>2, <2>3, <2>4
  <2>5. CASE pend[a] = <<Resuming>>
    BY <2>1, <2>2, <2>3, <2>5
  <2>6. QED
    BY <2>1, <2>4, <2>5
<1>6. ASSUME NEW a \in Apps, Terminate(a) PROVE QuietInv'
  <2>1. /\ status' = ShouldTerminate /\ UNCHANGED <<pc, late, pend>>
        /\ pc[Block] # "created" /\ pend[a] = <<>>
    BY <1>6 DEF Terminate, Usable, loopVars
  <2>2. \A b \in Apps : pend[b] = <<>>
    BY <2>1 DEF OneThread
  <2>3. QED
    BY <2>1, <2>2
<1>7. ASSUME NEW a \in Apps, AppRelease(a) PROVE QuietInv'
  BY <1>0, <1>7 DEF AppRelease, loopVars, Control
<1>8. ASSUME NEW t \in Threads, SXReleaseLoad(t) \/ SXReleaseStore(t) \/ SXReleaseTest(t)
      PROVE  QuietInv'
  BY <1>0, <1>8 DEF SXReleaseLoad, SXReleaseStore, SXReleaseTest, AfterRelease, loopVars,
                    Control, ReleasePc, BlockPc
<1>9. CASE Hangup \/ \E n \in Lengths : Send(n)
  BY <1>0, <1>9 DEF Hangup, Send, loopVars
<1>10. CASE Begin
  <2>1. late # 1 /\ late' = late /\ pend' = pend /\ status' = Running /\ pc'[Block] = "switch"
    BY <1>10 DEF Begin, BlockMoves, Control
  <2>2. QED
    BY <2>1
<1>11. CASE Resume
  <2>1. late # 1 /\ late' = late /\ pend' = pend /\ status' = Running /\ pc'[Block] = "while"
    BY <1>11 DEF Resume, BlockMoves, loopVars, Control
  <2>2. QED
    BY <2>1
<1>12. CASE Switch
  <2>1. late' = late /\ pend' = pend /\ status' = status /\ pc'[Block] = Branch(status)
    BY <1>12 DEF Switch, BlockMoves, Control
  <2>2. QED
    BY <2>1 DEF Branch
<1>13. CASE Recv
  <2>1. /\ UNCHANGED <<pend, status>> /\ late # 1 /\ pc'[Block] \in {"handler", "exit"}
        /\ late' = late \/ (status = Suspend /\ late' = late + 1)
    BY <1>13 DEF Recv, Deliver, BlockMoves, Control
  <2>2. QED
    BY <2>1
<1>14. CASE SuspendedRecv
  <2>1. /\ UNCHANGED <<pend, status, late>> /\ pc'[Block] \in {"handler", "exit", "while"}
    BY <1>14 DEF SuspendedRecv, SuspendedTarget, Deliver, BlockMoves, Control
  <2>2. QED
    BY <1>0, <2>1 DEF BlockPc, LoopPc
<1>15. CASE HandlerReturns \/ While \/ Exit \/ DidDisconnect
  <2>1. /\ UNCHANGED <<pend, status, late>>
        /\ pc'[Block] \in {"while", "switch", "exit", "didDisconnect", "release"}
    BY <1>15 DEF HandlerReturns, While, Exit, DidDisconnect, BlockMoves, loopVars, Control
  <2>2. QED
    BY <1>0, <2>1 DEF BlockPc, LoopPc, ReleasePc
<1>16. QED
  BY <1>1, <1>2, <1>3, <1>4, <1>5, <1>6, <1>7, <1>8, <1>9, <1>10, <1>11, <1>12, <1>13,
     <1>14, <1>15, NextCases

\* No store of the block's undoes a suspension, however the program's one thread and the
\* block interleave (SXClient.c:104-105, sx_object.c:32-47).
THEOREM SuspensionSticksHolds ==
    ASSUME OneThread
    PROVE  Spec => SuspensionSticks
<1>1. Init => Control /\ QuietInv
  BY ControlInit, QuietInit
<1>2. Control /\ QuietInv /\ [Next]_vars => (Control /\ QuietInv)'
  BY ControlNext, QuietNext
<1>3. ASSUME Control, QuietInv, [Next]_vars
      PROVE  [status = Suspend /\ ~At(Block, "queued") => status' # Running]_vars
  <2> SUFFICES ASSUME Next, status = Suspend, status' = Running PROVE pc[Block] = "queued"
    BY <1>3 DEF At
  <2> USE StatusesDiffer
  <2>1. ASSUME NEW a \in Apps, StatusStore(a) PROVE FALSE
    <3>1. status' \in {Suspend, Resuming}
      BY <1>3, <2>1 DEF StatusStore, Control
    <3>2. QED
      BY <3>1
  <2>2. CASE Begin
    BY <2>2 DEF Begin, Step, At
  <2>3. CASE Resume
    BY <1>3, <2>3 DEF Resume, Step, At, QuietInv, StickInv
  <2>4. ASSUME NEW a \in Apps, Terminate(a) PROVE FALSE
    BY <2>4 DEF Terminate
  <2>5. ASSUME UNCHANGED status PROVE FALSE
    BY <2>5
  <2>6. CASE \/ SXStartClient \/ Hangup \/ \E n \in Lengths : Send(n)
             \/ \E a \in Apps : SXSuspendObject(a) \/ SXResumeObject(a) \/ AppRelease(a)
             \/ \E t \in Threads : SXReleaseLoad(t) \/ SXReleaseStore(t) \/ SXReleaseTest(t)
    BY <2>5, <2>6 DEF SXStartClient, Hangup, Send, SXSuspendObject, SXResumeObject, AppRelease,
                      SXReleaseLoad, SXReleaseStore, SXReleaseTest
  <2>7. CASE \/ Switch \/ Recv \/ SuspendedRecv \/ HandlerReturns
             \/ While \/ Exit \/ DidDisconnect
    BY <2>5, <2>7 DEF Switch, Recv, SuspendedRecv, HandlerReturns, While, Exit, DidDisconnect
  <2>8. QED
    BY <2>1, <2>2, <2>3, <2>4, <2>6, <2>7, NextCases
<1>4. QED
  BY <1>1, <1>2, <1>3, PTL DEF Spec, SuspensionSticks

-----------------------------------------------------------------------------
(* The client implements ConnLife.  One lemma per kind of abstract step.   *)

Handling == pc[Block] = "handler"
Quiet    == status = Suspend /\ ~At(Block, "queued")

LEMMA OneAt == \A x, y : One(x)[Block] = x /\ [One(x) EXCEPT ![Block] = y] = One(y)
  BY DEF One

SamePhase    == UNCHANGED One(Phase)
SameHandling == UNCHANGED One(Handling)
SameQuiet    == UNCHANGED One(Quiet)
SameCredit   == UNCHANGED One(1 - late)

LEMMA Stutters ==
    ASSUME SamePhase, SameHandling, SameQuiet, SameCredit
    PROVE  UNCHANGED Life!vars
  BY Zenon DEF SamePhase, SameHandling, SameQuiet, SameCredit, Handling, Quiet, Life!vars

\* Between two places of the same phase, neither of them the handler.
LEMMA Moves ==
    ASSUME Phase' = Phase, pc[Block] # "handler", pc'[Block] # "handler",
           status # Suspend \/ UNCHANGED status, status' # Suspend \/ UNCHANGED status,
           pc[Block] # "queued", pc'[Block] # "queued", UNCHANGED late
    PROVE  UNCHANGED Life!vars
<1>1. Handling = FALSE /\ Handling' = FALSE
  BY DEF Handling
<1>2. Quiet = Quiet'
  BY DEF Quiet, At
<1>3. SamePhase /\ SameHandling /\ SameQuiet /\ SameCredit
  BY <1>1, <1>2, Zenon DEF SamePhase, SameHandling, SameQuiet, SameCredit, One
<1>4. QED
  BY <1>3, Stutters

\* A step from one phase to the next.
LEMMA Becomes ==
    ASSUME SameHandling, SameQuiet, SameCredit
    PROVE  Life!Becomes(Block, Phase, Phase')
<1>1. One(Phase)' = [One(Phase) EXCEPT ![Block] = Phase'] /\ One(Phase)[Block] = Phase
  <2>1. One(Phase)' = One(Phase')
    BY Zenon DEF One
  <2>2. QED
    BY <2>1, OneAt, Zenon
<1>2. QED
  BY <1>1, Zenon DEF Life!Becomes, SameHandling, SameQuiet, SameCredit, Handling, Quiet

LEMMA InitImplements == Init => Life!Init
<1> SUFFICES ASSUME Init PROVE Life!Init
  OBVIOUS
<1>1. pc[Block] = "created" /\ status = Idle /\ late = 0
  BY DEF Init, Threads
<1>2. Phase = "none"
  BY <1>1 DEF Phase, LoopPc
<1>3. (pc[Block] = "handler") = FALSE
  BY <1>1
<1>4. (status = Suspend /\ ~At(Block, "queued")) = FALSE
  BY <1>1, StatusesDiffer
<1>5. 1 - late = 1
  BY <1>1
<1>6. QED
  BY <1>2, <1>3, <1>4, <1>5, Zenon DEF Life!Init, One

\* The handler is called.
LEMMA Begins ==
    ASSUME Phase = "live", Phase' = "live", UNCHANGED status,
           pc[Block] \notin {"handler", "queued"}, pc'[Block] = "handler",
           \/ status # Suspend /\ UNCHANGED late
           \/ status = Suspend /\ late = 0 /\ late' = 1
    PROVE  Life!Begin(Block)
<1>1. One(Phase)[Block] = "live" /\ UNCHANGED One(Phase)
  BY Zenon DEF One
<1>2. One(pc[Block] = "handler")[Block] = FALSE
  <2>1. (pc[Block] = "handler") = FALSE
    OBVIOUS
  <2>2. QED
    BY <2>1, OneAt, Zenon
<1>3. One(pc[Block] = "handler")' = [One(pc[Block] = "handler") EXCEPT ![Block] = TRUE]
  <2>1. (pc[Block] = "handler")' = TRUE
    OBVIOUS
  <2>2. One(pc[Block] = "handler")' = One(TRUE)
    BY <2>1, Zenon DEF One
  <2>3. QED
    BY <2>2, OneAt, Zenon
<1>4. /\ UNCHANGED One(status = Suspend /\ ~At(Block, "queued"))
      /\ One(status = Suspend /\ ~At(Block, "queued"))[Block] = (status = Suspend)
  <2>1. /\ (status = Suspend /\ ~At(Block, "queued")) = (status = Suspend)
        /\ (status = Suspend /\ ~At(Block, "queued"))' = (status = Suspend)
    BY DEF At
  <2>2. QED
    BY <2>1, Zenon DEF One
<1>5. CASE status # Suspend /\ UNCHANGED late
  <2>1. UNCHANGED One(1 - late)
    BY <1>5, Zenon DEF One
  <2>2. QED
    BY <1>1, <1>2, <1>3, <1>4, <1>5, <2>1, Zenon DEF Life!Begin
<1>6. CASE status = Suspend /\ late = 0 /\ late' = 1
  <2>1. 1 - late = 1 /\ 1 - late' = 0
    BY <1>6
  <2>2. One(1 - late)[Block] = 1 /\ One(1 - late)' = [One(1 - late) EXCEPT ![Block] = 0]
    <3>1. One(1 - late)' = One(0)
      BY <2>1, Zenon DEF One
    <3>2. QED
      BY <2>1, <3>1, OneAt, Zenon
  <2>3. QED
    BY <1>1, <1>2, <1>3, <1>4, <1>6, <2>2, Zenon DEF Life!Begin
<1>7. QED
  BY <1>5, <1>6

\* It returns.
LEMMA Ends ==
    ASSUME UNCHANGED <<One(Phase), status, late>>,
           pc[Block] = "handler", pc'[Block] \notin {"handler", "queued"}
    PROVE  Life!End(Block)
<1>1. (pc[Block] = "handler") = TRUE /\ (pc[Block] = "handler")' = FALSE
  OBVIOUS
<1>2. /\ One(pc[Block] = "handler")[Block] = TRUE
      /\ One(pc[Block] = "handler")' = [One(pc[Block] = "handler") EXCEPT ![Block] = FALSE]
  <2>1. One(pc[Block] = "handler")' = One(FALSE)
    BY <1>1, Zenon DEF One
  <2>2. QED
    BY <1>1, <2>1, OneAt, Zenon
<1>3. Quiet' = Quiet
  BY DEF Quiet, At
<1>4. UNCHANGED <<One(status = Suspend /\ ~At(Block, "queued")), One(1 - late)>>
  BY <1>3, Zenon DEF One, Quiet
<1>5. QED
  BY <1>2, <1>4, Zenon DEF Life!End

\* The program changes the status: to resuming, with a new call, or otherwise.
LEMMA Wakes ==
    ASSUME UNCHANGED pc, late' = 0
    PROVE  \E S \in SUBSET {Block} : Life!Wake(S)
<1>1. UNCHANGED <<One(Phase), One(pc[Block] = "handler")>>
  <2>1. Phase' = Phase
    BY DEF Phase
  <2>2. QED
    BY <2>1, Zenon DEF One
<1>2. One(status = Suspend /\ ~At(Block, "queued"))' \in [{Block} -> BOOLEAN]
  BY DEF One, At
<1>3. One(1 - late)' = [c \in {Block} |-> IF c \in {Block} THEN 1 ELSE One(1 - late)[c]]
  BY DEF One
<1>4. Life!Wake({Block})
  BY <1>1, <1>2, <1>3 DEF Life!Wake
<1>5. QED
  BY <1>4, Zenon

LEMMA Hushes ==
    ASSUME UNCHANGED <<pc, late>>
    PROVE  \E S \in SUBSET {Block} : Life!Hush(S)
<1> DEFINE S == {c \in {Block} : Quiet'}
<1>1. UNCHANGED <<One(Phase), One(pc[Block] = "handler"), One(1 - late)>>
  <2>1. Phase' = Phase
    BY DEF Phase
  <2>2. QED
    BY <2>1, Zenon DEF One
<1>2. One(Quiet)' = [c \in {Block} |-> c \in S]
  BY DEF One, Quiet, At
<1>3. Life!Hush(S)
  BY <1>1, <1>2, Zenon DEF Life!Hush, Quiet
<1>4. QED
  BY <1>3, Zenon

LEMMA StepImplements ==
    ASSUME Control, QuietInv, [Next]_vars
    PROVE  [Life!Next]_Life!vars
<1> SUFFICES Life!Next \/ UNCHANGED Life!vars
  BY Zenon
<1> USE StatusesDiffer DEF At, Goto, Step
<1> /\ Block \in Threads /\ \A a \in Apps : a \in Threads /\ a # Block
  BY SXClientAssumption DEF Threads
\* Steps that a reader of ConnLife does not see.
<1>0. ASSUME UNCHANGED <<status, late>>, UNCHANGED pc[Block] PROVE UNCHANGED Life!vars
  <2>1. Phase' = Phase /\ Handling' = Handling /\ Quiet' = Quiet
    BY <1>0 DEF Phase, Handling, Quiet
  <2>2. SamePhase /\ SameHandling /\ SameQuiet /\ SameCredit
    BY <1>0, <2>1, Zenon DEF SamePhase, SameHandling, SameQuiet, SameCredit, One
  <2>3. QED
    BY <2>2, Stutters
<1>1. CASE UNCHANGED vars \/ Hangup \/ \E n \in Lengths : Send(n)
  BY <1>0, <1>1 DEF vars, Hangup, Send, loopVars
<1>2. ASSUME NEW a \in Apps, SXSuspendObject(a) \/ SXResumeObject(a) PROVE UNCHANGED Life!vars
  BY <1>0, <1>2 DEF SXSuspendObject, SXResumeObject, loopVars
<1>3. ASSUME NEW a \in Apps, AppRelease(a) PROVE UNCHANGED Life!vars
  BY <1>0, <1>3 DEF AppRelease, loopVars, Control
<1>4. ASSUME NEW t \in Threads, SXReleaseLoad(t) \/ SXReleaseStore(t) \/ SXReleaseTest(t)
      PROVE  UNCHANGED Life!vars
  <2>1. /\ UNCHANGED <<status, late>> /\ pc[t] \in ReleasePc
        /\ \E l \in {"idle", "closed", "relStore", "relTest"} : pc' = [pc EXCEPT ![t] = l]
    BY <1>4 DEF SXReleaseLoad, SXReleaseStore, SXReleaseTest, AfterRelease, loopVars, ReleasePc
  <2>2. CASE t # Block
    BY <1>0, <2>1, <2>2 DEF Control
  <2>3. CASE t = Block
    <3>1. /\ pc[Block] \in {"release", "relStore", "relTest"}
          /\ pc'[Block] \in {"idle", "closed", "relStore", "relTest"}
      BY <2>1, <2>3 DEF Control, ReleasePc
    <3>2. Phase = "down" /\ Phase' = "down"
      BY <3>1 DEF Phase, LoopPc
    <3>3. QED
      BY <2>1, <3>1, <3>2, Moves
  <2>4. QED
    BY <2>2, <2>3
\* The program's stores.
<1>5. ASSUME NEW a \in Apps, StatusStore(a) \/ Terminate(a) PROVE Life!Next
  <2>1. UNCHANGED pc /\ (late' = 0 \/ late' = late)
    BY <1>5 DEF StatusStore, Terminate, loopVars
  <2>2. QED
    BY <2>1, Wakes, Hushes DEF Life!Next
\* The block's life.
<1>6. CASE SXStartClient
  <2>1. /\ pc[Block] = "created" /\ pc'[Block] \in {"crashed", "queued"}
        /\ UNCHANGED <<status, late>> /\ status = Idle
    BY <1>6 DEF SXStartClient, loopVars, Control, QuietInv, StickInv
  <2>2. CASE pc'[Block] = "crashed"
    <3>1. Phase' = Phase
      BY <2>1, <2>2 DEF Phase, LoopPc
    <3>2. QED
      BY <2>1, <2>2, <3>1, Moves
  <2>3. CASE pc'[Block] = "queued"
    <3>1. Phase = "none" /\ Phase' = "pending"
      BY <2>1, <2>3 DEF Phase, LoopPc
    <3>2. Handling = FALSE /\ Handling' = FALSE /\ Quiet = FALSE /\ Quiet' = FALSE
      BY <2>1, <2>3 DEF Handling, Quiet
    <3>3. SameHandling /\ SameQuiet /\ SameCredit
      BY <2>1, <3>2, Zenon DEF SameHandling, SameQuiet, SameCredit, One
    <3>4. Life!Becomes(Block, "none", "pending")
      BY <3>1, <3>3, Becomes, Zenon
    <3>5. QED
      BY <3>4, Zenon DEF Life!Next, Life!Arrive
  <2>4. QED
    BY <2>1, <2>2, <2>3
<1>7. CASE Begin
  <2>1. /\ pc[Block] = "queued" /\ pc'[Block] = "switch"
        /\ UNCHANGED late /\ status' = Running
    BY <1>7 DEF Begin, Control
  <2>2. Phase = "pending" /\ Phase' = "live"
    BY <2>1 DEF Phase, LoopPc
  <2>3. Handling = FALSE /\ Handling' = FALSE /\ Quiet = FALSE /\ Quiet' = FALSE
    BY <2>1 DEF Handling, Quiet
  <2>4. SameHandling /\ SameQuiet /\ SameCredit
    BY <2>1, <2>3, Zenon DEF SameHandling, SameQuiet, SameCredit, One
  <2>5. Life!Becomes(Block, "pending", "live")
    BY <2>2, <2>4, Becomes, Zenon
  <2>6. QED
    BY <2>5, Zenon DEF Life!Next, Life!Admit
<1>8. CASE Switch \/ While \/ DidDisconnect
  <2>1. /\ UNCHANGED <<status, late>>
        /\ \/ pc[Block] \in {"switch", "while"} /\ pc'[Block] \in {"recv", "resume", "srecv", "while", "switch", "exit"}
           \/ pc[Block] = "didDisconnect" /\ pc'[Block] = "release"
    BY <1>8 DEF Switch, Branch, While, DidDisconnect, loopVars, Control
  <2>2. Phase' = Phase
    BY <2>1 DEF Phase, LoopPc
  <2>3. QED
    BY <2>1, <2>2, Moves
<1>9. CASE Resume
  <2>1. /\ pc[Block] = "resume" /\ pc'[Block] = "while" /\ UNCHANGED late
        /\ status' = Running /\ status # Suspend
    BY <1>9 DEF Resume, loopVars, Control, QuietInv, StickInv
  <2>2. Phase' = Phase
    BY <2>1 DEF Phase, LoopPc
  <2>3. QED
    BY <2>1, <2>2, Moves
<1>10. CASE Exit
  <2>1. /\ pc[Block] = "exit" /\ pc'[Block] = "didDisconnect" /\ UNCHANGED <<status, late>>
    BY <1>10 DEF Exit, loopVars, Control
  <2>2. Phase = "live" /\ Phase' = "down"
    BY <2>1 DEF Phase, LoopPc
  <2>3. Handling = FALSE /\ Handling' = FALSE /\ Quiet' = Quiet
    BY <2>1 DEF Handling, Quiet
  <2>4. SameHandling /\ SameQuiet /\ SameCredit
    BY <2>1, <2>3, Zenon DEF SameHandling, SameQuiet, SameCredit, One
  <2>5. Life!Becomes(Block, "live", "down")
    BY <2>2, <2>4, Becomes, Zenon
  <2>6. One(pc[Block] = "handler")[Block] = FALSE
    BY <2>3, OneAt, Zenon DEF Handling
  <2>7. QED
    BY <2>5, <2>6, Zenon DEF Life!Next, Life!Close
\* The calls of the data handler.
<1>11. CASE Recv \/ SuspendedRecv
  <2>1. /\ UNCHANGED status /\ pc[Block] \in {"recv", "srecv"}
        /\ pc'[Block] \in {"handler", "exit", "while"}
        /\ \/ pc'[Block] # "handler" /\ UNCHANGED late
           \/ pc'[Block] = "handler" /\ late' = IF status = Suspend THEN late + 1 ELSE late
        /\ pc[Block] = "srecv" /\ pc'[Block] = "handler" => status # Suspend
    BY <1>11 DEF Recv, SuspendedRecv, SuspendedTarget, Deliver, BlockMoves, Control
  <2>2. Phase = "live" /\ Phase' = "live"
    BY <2>1 DEF Phase, LoopPc
  <2>3. CASE pc'[Block] # "handler"
    BY <2>1, <2>2, <2>3, Moves
  <2>4. CASE pc'[Block] = "handler"
    <3>1. \/ status # Suspend /\ UNCHANGED late
          \/ status = Suspend /\ late = 0 /\ late' = 1
      BY <2>1, <2>4 DEF QuietInv, LateInv
    <3>2. Life!Begin(Block)
      BY <2>1, <2>2, <2>4, <3>1, Begins
    <3>3. QED
      BY <3>2, Zenon DEF Life!Next
  <2>5. QED
    BY <2>3, <2>4
<1>12. CASE HandlerReturns
  <2>1. pc[Block] = "handler" /\ pc'[Block] = "while" /\ UNCHANGED <<status, late>>
    BY <1>12 DEF HandlerReturns, Control
  <2>2. Phase' = Phase
    BY <2>1 DEF Phase, LoopPc
  <2>3. UNCHANGED One(Phase)
    BY <2>2, Zenon DEF One
  <2>4. Life!End(Block)
    BY <2>1, <2>3, Ends
  <2>5. QED
    BY <2>4, Zenon DEF Life!Next
<1>13. QED
  BY <1>1, <1>2, <1>3, <1>4, <1>5, <1>6, <1>7, <1>8, <1>9, <1>10, <1>11, <1>12, NextCases

\* A client that one thread suspends and resumes implements ConnLife: one handler call at a
\* time, none outside its life, and once suspended at most one more until it is resumed
\* (SXClient.c:84-150).
THEOREM ClientImplementsConnLife ==
    ASSUME OneThread
    PROVE  Spec => ImplementsConnLife
<1>1. Init => Control /\ QuietInv
  BY ControlInit, QuietInit
<1>2. Control /\ QuietInv /\ [Next]_vars => (Control /\ QuietInv)'
  BY ControlNext, QuietNext
<1>3. Control /\ QuietInv /\ [Next]_vars => [Life!Next]_Life!vars
  BY StepImplements
<1>4. QED
  BY <1>1, <1>2, <1>3, InitImplements, PTL DEF Spec, ImplementsConnLife, Life!Spec
=============================================================================
