---------------------------- MODULE HttpProxy_proofs ----------------------------
(***************************************************************************)
(* Theorems about HttpProxy, for every set of guests and requests.         *)
(***************************************************************************)
EXTENDS HttpProxy, FiniteSetTheorems, SequenceTheorems, WellFoundedInduction, TLAPS

LEMMA NextCases ==
    ASSUME Next
    PROVE  \E c \in Conns :
             \/ GuestSends(c) \/ GuestLeaves(c) \/ OriginSends(c) \/ OriginLeaves(c)
             \/ Accept(c) \/ Start(c) \/ Recv(c) \/ Eof(c) \/ Parse(c)
             \/ StartClientIp(c) \/ StartClientName(c) \/ Send(c) \/ Close(c) \/ FreeQueue(c)
             \/ ClientStarts(c) \/ ClientRecv(c) \/ Deliver(c) \/ DeliverError(c) \/ ClientEnds(c)
  BY DEF Next, Net, WorkerStep, ClientStep

USE DEF Goto, Step, CGoto, CStep, WorkerMoves, ClientMoves,
        guestVars, clientVars, originVars, HandlerPc, ServingPc, BlockPc

-----------------------------------------------------------------------------
(* Types of what descriptors depend on.                                    *)

Holder == {Nobody} \cup ({"guest", "origin"} \X Conns)

FdOK == /\ fd \in [Conns -> Fds] /\ cfd \in [Conns -> Fds]
        /\ table \in [Fds -> Holder]
PcOK == /\ pc \in [Conns -> {"new", "free", "closed", "wild"} \cup ServingPc]
        /\ cpc \in [Conns -> {"none", "made", "idle", "freed", "wild"} \cup BlockPc]
        /\ sock \in [Conns -> {"none", "open", "unconnected", "released"}]
        /\ stray \in BOOLEAN

\* What a step does to descriptors: nothing, open one, or close one.
Still == UNCHANGED <<fd, cfd, table>>

LEMMA FdNext == FdOK /\ [Next]_vars => FdOK'
<1> SUFFICES ASSUME FdOK, [Next]_vars PROVE FdOK'
  OBVIOUS
<1> USE DEF FdOK, Holder
<1>1. CASE UNCHANGED vars
  BY <1>1 DEF vars
<1>2. CASE Next
  <2> PICK c \in Conns :
             \/ GuestSends(c) \/ GuestLeaves(c) \/ OriginSends(c) \/ OriginLeaves(c)
             \/ Accept(c) \/ Start(c) \/ Recv(c) \/ Eof(c) \/ Parse(c)
             \/ StartClientIp(c) \/ StartClientName(c) \/ Send(c) \/ Close(c) \/ FreeQueue(c)
             \/ ClientStarts(c) \/ ClientRecv(c) \/ Deliver(c) \/ DeliverError(c) \/ ClientEnds(c)
    BY <1>2, NextCases
  <2>1. CASE Still
    BY <2>1 DEF Still
  <2>2. CASE GuestSends(c) \/ GuestLeaves(c) \/ OriginSends(c) \/ OriginLeaves(c)
    BY <2>1, <2>2 DEF GuestSends, GuestLeaves, OriginSends, OriginLeaves, Still
  <2>3. CASE Start(c) \/ Recv(c) \/ Eof(c) \/ Parse(c) \/ Send(c)
    BY <2>1, <2>3 DEF Start, Recv, Eof, Parse, Send, Still
  <2>4. CASE ClientStarts(c) \/ ClientRecv(c) \/ Deliver(c) \/ DeliverError(c)
    BY <2>1, <2>4 DEF ClientStarts, ClientRecv, Deliver, DeliverError, Still
  <2>5. CASE Accept(c)
    BY <2>5 DEF Accept
  <2>6. CASE StartClientIp(c) \/ StartClientName(c)
    <3>1. UNCHANGED fd /\ (UNCHANGED <<cfd, table>> \/ Opens(c, "open") \/ Opens(c, "unconnected"))
      BY <2>6 DEF StartClientIp, StartClientName, Connected
    <3>2. QED
      BY <3>1 DEF Opens
  <2>7. CASE Close(c) \/ FreeQueue(c) \/ ClientEnds(c)
    BY <2>7 DEF Close, FreeQueue, ClientEnds
  <2>8. QED
    BY <2>2, <2>3, <2>4, <2>5, <2>6, <2>7
<1>3. QED
  BY <1>1, <1>2

LEMMA PcNext == PcOK /\ [Next]_vars => PcOK'
<1> SUFFICES ASSUME PcOK, [Next]_vars PROVE PcOK'
  OBVIOUS
<1> USE DEF PcOK
<1>1. CASE UNCHANGED vars
  BY <1>1 DEF vars
<1>2. CASE Next
  <2> PICK c \in Conns :
             \/ GuestSends(c) \/ GuestLeaves(c) \/ OriginSends(c) \/ OriginLeaves(c)
             \/ Accept(c) \/ Start(c) \/ Recv(c) \/ Eof(c) \/ Parse(c)
             \/ StartClientIp(c) \/ StartClientName(c) \/ Send(c) \/ Close(c) \/ FreeQueue(c)
             \/ ClientStarts(c) \/ ClientRecv(c) \/ Deliver(c) \/ DeliverError(c) \/ ClientEnds(c)
    BY <1>2, NextCases
  <2>1. CASE GuestSends(c) \/ GuestLeaves(c) \/ OriginSends(c) \/ OriginLeaves(c)
    BY <2>1 DEF GuestSends, GuestLeaves, OriginSends, OriginLeaves
  <2>2. CASE Accept(c) \/ Start(c) \/ Recv(c) \/ Eof(c)
    BY <2>2 DEF Accept, Start, Recv, Eof
  <2>3. CASE Parse(c)
    BY <2>3 DEF Parse
  <2>4. CASE StartClientIp(c)
    BY <2>4 DEF StartClientIp, Connected, Opens
  <2>5. CASE StartClientName(c)
    BY <2>5 DEF StartClientName, Connected, Opens
  <2>6. CASE Send(c) \/ Close(c) \/ FreeQueue(c)
    BY <2>6 DEF Send, Close, FreeQueue
  <2>7. CASE ClientStarts(c) \/ ClientRecv(c)
    BY <2>7 DEF ClientStarts, ClientRecv
  <2>8. CASE Deliver(c) \/ DeliverError(c) \/ ClientEnds(c)
    BY <2>8 DEF Deliver, DeliverError, ClientEnds
  <2>9. QED
    BY <2>1, <2>2, <2>3, <2>4, <2>5, <2>6, <2>7, <2>8
<1>3. QED
  BY <1>1, <1>2

\* The rest of the types.
RestOK == /\ inbox \in [Conns -> 0..MaxUnread] /\ unread \in [Conns -> 0..MaxUnread]
          /\ peer \in [Conns -> {"open", "fin", "rst"}]
          /\ origin \in [Conns -> {"none", "open", "fin", "rst"}]
          /\ queues \subseteq Conns /\ crossed \subseteq Conns
          /\ crashed \in BOOLEAN

LEMMA RestNext == RestOK /\ [Next]_vars => RestOK'
<1> SUFFICES ASSUME RestOK, [Next]_vars PROVE RestOK'
  OBVIOUS
<1> USE HttpProxyAssumption DEF RestOK
<1>1. CASE UNCHANGED vars
  BY <1>1 DEF vars
<1>2. CASE Next
  <2> PICK c \in Conns :
             \/ GuestSends(c) \/ GuestLeaves(c) \/ OriginSends(c) \/ OriginLeaves(c)
             \/ Accept(c) \/ Start(c) \/ Recv(c) \/ Eof(c) \/ Parse(c)
             \/ StartClientIp(c) \/ StartClientName(c) \/ Send(c) \/ Close(c) \/ FreeQueue(c)
             \/ ClientStarts(c) \/ ClientRecv(c) \/ Deliver(c) \/ DeliverError(c) \/ ClientEnds(c)
    BY <1>2, NextCases
  <2>1. CASE GuestSends(c)
    BY <2>1 DEF GuestSends
  <2>2. CASE GuestLeaves(c)
    BY <2>2 DEF GuestLeaves
  <2>3. CASE OriginSends(c)
    BY <2>3 DEF OriginSends
  <2>4. CASE OriginLeaves(c)
    BY <2>4 DEF OriginLeaves
  <2>5. CASE Accept(c) \/ Start(c) \/ Eof(c) \/ Parse(c)
    BY <2>5 DEF Accept, Start, Eof, Parse
  <2>6. CASE Recv(c)
    BY <2>6 DEF Recv
  <2>7. CASE StartClientIp(c) \/ StartClientName(c)
    BY <2>7 DEF StartClientIp, StartClientName, Connected
  <2>8. CASE Send(c) \/ Close(c) \/ FreeQueue(c)
    BY <2>8 DEF Send, Close, FreeQueue, MayCrash
  <2>9. CASE ClientStarts(c) \/ DeliverError(c) \/ ClientEnds(c)
    BY <2>9 DEF ClientStarts, DeliverError, ClientEnds
  <2>10. CASE ClientRecv(c)
    BY <2>10 DEF ClientRecv
  <2>11. CASE Deliver(c)
    BY <2>11 DEF Deliver, MayCrash
  <2>12. QED
    BY <2>1, <2>2, <2>3, <2>4, <2>5, <2>6, <2>7, <2>8, <2>9, <2>10, <2>11
<1>3. QED
  BY <1>1, <1>2

-----------------------------------------------------------------------------
(* Who uses which descriptor.                                              *)

\* A client that has not been started has no socket, and only such a one is started.
Unstarted == \A c \in Conns : /\ pc[c] \in {"connectIp", "connectName"} => cpc[c] = "made"
                              /\ cpc[c] \in {"none", "made"} => sock[c] = "none"

LEMMA UnstartedNext == PcOK /\ Unstarted /\ [Next]_vars => Unstarted'
<1> SUFFICES ASSUME PcOK, Unstarted, [Next]_vars PROVE Unstarted'
  OBVIOUS
<1> USE DEF PcOK, Unstarted
<1>1. CASE UNCHANGED vars
  BY <1>1 DEF vars
<1>2. CASE Next
  <2> PICK c \in Conns :
             \/ GuestSends(c) \/ GuestLeaves(c) \/ OriginSends(c) \/ OriginLeaves(c)
             \/ Accept(c) \/ Start(c) \/ Recv(c) \/ Eof(c) \/ Parse(c)
             \/ StartClientIp(c) \/ StartClientName(c) \/ Send(c) \/ Close(c) \/ FreeQueue(c)
             \/ ClientStarts(c) \/ ClientRecv(c) \/ Deliver(c) \/ DeliverError(c) \/ ClientEnds(c)
    BY <1>2, NextCases
  <2>1. CASE GuestSends(c) \/ GuestLeaves(c) \/ OriginSends(c) \/ OriginLeaves(c)
    BY <2>1 DEF GuestSends, GuestLeaves, OriginSends, OriginLeaves
  <2>2. CASE Accept(c) \/ Start(c) \/ Recv(c) \/ Eof(c)
    BY <2>2 DEF Accept, Start, Recv, Eof
  <2>3. CASE Parse(c)
    BY <2>3 DEF Parse
  <2>4. CASE StartClientIp(c)
    BY <2>4 DEF StartClientIp, Connected, Opens
  <2>5. CASE StartClientName(c)
    BY <2>5 DEF StartClientName, Connected, Opens
  <2>6. CASE Send(c) \/ Close(c) \/ FreeQueue(c)
    BY <2>6 DEF Send, Close, FreeQueue
  <2>7. CASE ClientStarts(c) \/ ClientRecv(c)
    BY <2>7 DEF ClientStarts, ClientRecv
  <2>8. CASE Deliver(c) \/ DeliverError(c) \/ ClientEnds(c)
    BY <2>8 DEF Deliver, DeliverError, ClientEnds
  <2>9. QED
    BY <2>1, <2>2, <2>3, <2>4, <2>5, <2>6, <2>7, <2>8
<1>3. QED
  BY <1>1, <1>2

\* The worker of c uses its guest's descriptor, the client of c its socket's.
Serving(c)   == pc[c] \in ServingPc \cup {"wild"}
HasSocket(c) == sock[c] \in {"open", "unconnected"}

\* Nobody is a holder, and a descriptor has one.
LEMMA HoldersDiffer ==
    \A c, d \in Conns : /\ <<"guest", c>> # <<"origin", d>>
                        /\ <<"guest", c>> = <<"guest", d>> => c = d
                        /\ <<"origin", c>> = <<"origin", d>> => c = d
                        /\ Nobody # <<"guest", c>> /\ Nobody # <<"origin", c>>
  BY HttpProxyAssumption

\* A step after which every descriptor has the user it had.
LEMMA SameUsers ==
    ASSUME DescriptorsOwned, Still, UNCHANGED stray,
           \A c \in Conns : (Serving(c)' <=> Serving(c)) /\ (HasSocket(c)' <=> HasSocket(c))
    PROVE  DescriptorsOwned'
  BY DEF DescriptorsOwned, Still, Serving, HasSocket

LEMMA DescriptorsNext ==
    FdOK /\ PcOK /\ Unstarted /\ DescriptorsOwned /\ [Next]_vars => DescriptorsOwned'
<1> SUFFICES ASSUME FdOK, PcOK, Unstarted, DescriptorsOwned, [Next]_vars
             PROVE  DescriptorsOwned'
  OBVIOUS
<1>1. CASE UNCHANGED vars
  BY <1>1, SameUsers DEF vars, Still, Serving, HasSocket
<1>2. CASE Next
  <2> PICK c \in Conns :
             \/ GuestSends(c) \/ GuestLeaves(c) \/ OriginSends(c) \/ OriginLeaves(c)
             \/ Accept(c) \/ Start(c) \/ Recv(c) \/ Eof(c) \/ Parse(c)
             \/ StartClientIp(c) \/ StartClientName(c) \/ Send(c) \/ Close(c) \/ FreeQueue(c)
             \/ ClientStarts(c) \/ ClientRecv(c) \/ Deliver(c) \/ DeliverError(c) \/ ClientEnds(c)
    BY <1>2, NextCases
  <2>1. CASE GuestSends(c) \/ GuestLeaves(c) \/ OriginSends(c) \/ OriginLeaves(c)
    BY <2>1, SameUsers DEF GuestSends, GuestLeaves, OriginSends, OriginLeaves, Still,
                           Serving, HasSocket
  <2>2. CASE Start(c) \/ Recv(c) \/ Eof(c) \/ Parse(c) \/ Send(c)
    <3>1. Still /\ UNCHANGED <<sock, stray>>
      BY <2>2 DEF Start, Recv, Eof, Parse, Send, Still
    <3>2. \A d \in Conns : Serving(d)' <=> Serving(d)
      BY <2>2 DEF Start, Recv, Eof, Parse, Send, PcOK, Serving
    <3>3. QED
      BY <3>1, <3>2, SameUsers DEF HasSocket
  <2>3. CASE ClientStarts(c) \/ ClientRecv(c) \/ Deliver(c) \/ DeliverError(c)
    BY <2>3, SameUsers DEF ClientStarts, ClientRecv, Deliver, DeliverError, Still,
                           Serving, HasSocket
  \* A free descriptor is given to a guest without one.
  <2>4. CASE Accept(c)
    <3>1. PICK n \in Fds : /\ table[n] = Nobody
                           /\ fd' = [fd EXCEPT ![c] = n]
                           /\ table' = [table EXCEPT ![n] = <<"guest", c>>]
      BY <2>4 DEF Accept, Lowest
    <3>2. ~Serving(c) /\ Serving(c)' /\ UNCHANGED <<cfd, sock, stray>>
      BY <2>4 DEF Accept, PcOK, Serving
    <3>3. \A d \in Conns \ {c} : (Serving(d)' <=> Serving(d)) /\ fd'[d] = fd[d]
      BY <2>4, <3>1 DEF Accept, PcOK, FdOK, Serving
    <3>4. QED
      BY <3>1, <3>2, <3>3, HoldersDiffer DEF DescriptorsOwned, FdOK, Serving
  \* A free descriptor is given to a client without one, or nothing is opened.
  <2>5. CASE StartClientIp(c) \/ StartClientName(c)
    <3>1. ~HasSocket(c) /\ UNCHANGED <<fd, stray>>
      BY <2>5 DEF StartClientIp, StartClientName, Unstarted, HasSocket
    <3>2. \A d \in Conns : Serving(d)' <=> Serving(d)
      BY <2>5 DEF StartClientIp, StartClientName, PcOK, Serving
    <3>3. CASE Opens(c, "open") \/ Opens(c, "unconnected")
      <4>1. PICK n \in Fds : /\ table[n] = Nobody
                             /\ cfd' = [cfd EXCEPT ![c] = n]
                             /\ table' = [table EXCEPT ![n] = <<"origin", c>>]
        BY <3>3 DEF Opens, Lowest
      <4>2. HasSocket(c)' /\ \A d \in Conns \ {c} : /\ HasSocket(d)' <=> HasSocket(d)
                                                    /\ cfd'[d] = cfd[d]
        BY <3>3, <4>1 DEF Opens, PcOK, FdOK, HasSocket
      <4>3. QED
        BY <3>1, <3>2, <4>1, <4>2, HoldersDiffer DEF DescriptorsOwned, FdOK, Serving, HasSocket
    <3>4. CASE UNCHANGED <<cfd, table>> /\ (UNCHANGED sock \/ sock' = [sock EXCEPT ![c] = "released"])
      BY <3>1, <3>2, <3>4, SameUsers DEF Still, HasSocket, PcOK
    <3>5. QED
      BY <2>5, <3>3, <3>4 DEF StartClientIp, StartClientName, Connected
  \* The guest's descriptor is closed by the worker that uses it.
  <2>6. CASE Close(c)
    <3>1. /\ table' = [table EXCEPT ![fd[c]] = Nobody]
          /\ Serving(c) /\ ~Serving(c)' /\ UNCHANGED <<fd, cfd, sock, stray>>
      BY <2>6 DEF Close, PcOK, Serving
    <3>2. \A d \in Conns \ {c} : Serving(d)' <=> Serving(d)
      BY <2>6 DEF Close, PcOK, Serving
    <3>3. SUFFICES ASSUME ~stray, NEW n \in Fds, NEW d \in Conns
                   PROVE  /\ table'[n] = <<"guest", d>> <=> Serving(d)' /\ fd'[d] = n
                          /\ table'[n] = <<"origin", d>> <=> HasSocket(d)' /\ cfd'[d] = n
      BY <3>1 DEF DescriptorsOwned, Serving, HasSocket
    <3>4. /\ table[n] = <<"guest", d>> <=> Serving(d) /\ fd[d] = n
          /\ table[n] = <<"origin", d>> <=> HasSocket(d) /\ cfd[d] = n
          /\ table[fd[c]] = <<"guest", c>>
      BY <3>1, <3>3 DEF DescriptorsOwned, FdOK, Serving, HasSocket
    <3>5. table'[n] = IF n = fd[c] THEN Nobody ELSE table[n]
      BY <3>1 DEF FdOK
    <3>6. HasSocket(d)' <=> HasSocket(d)
      BY <3>1 DEF HasSocket
    <3>7. CASE d = c
      BY <3>1, <3>4, <3>5, <3>6, <3>7, HoldersDiffer
    <3>8. CASE d # c
      BY <3>1, <3>2, <3>4, <3>5, <3>6, <3>8, HoldersDiffer
    <3>9. QED
      BY <3>7, <3>8
  \* A second close that is not stray closes nothing.
  <2>7. CASE FreeQueue(c)
    <3>1. \A d \in Conns : (Serving(d)' <=> Serving(d)) /\ (HasSocket(d)' <=> HasSocket(d))
      BY <2>7 DEF FreeQueue, PcOK, Serving, HasSocket
    <3>2. CASE stray'
      BY <3>2 DEF DescriptorsOwned
    <3>3. CASE ~stray'
      <4>1. Still /\ UNCHANGED stray
        BY <2>7, <3>3 DEF FreeQueue, FdOK, PcOK, Still
      <4>2. QED
        BY <3>1, <4>1, SameUsers
    <3>4. QED
      BY <3>2, <3>3
  \* The client's socket, if it still is the client's.
  <2>8. CASE ClientEnds(c)
    <3>1. CASE stray'
      BY <3>1 DEF DescriptorsOwned
    <3>2. CASE ~stray'
      <4>1. /\ table' = [table EXCEPT ![cfd[c]] = Nobody] /\ ~stray
            /\ table[cfd[c]] = <<"origin", c>> /\ ~HasSocket(c)'
            /\ UNCHANGED <<fd, cfd, pc>>
        BY <2>8, <3>2 DEF ClientEnds, COwn, PcOK, HasSocket
      <4>2. \A d \in Conns \ {c} : HasSocket(d)' <=> HasSocket(d)
        BY <2>8 DEF ClientEnds, PcOK, HasSocket
      <4>3. SUFFICES ASSUME NEW n \in Fds, NEW d \in Conns
                     PROVE  /\ table'[n] = <<"guest", d>> <=> Serving(d)' /\ fd'[d] = n
                            /\ table'[n] = <<"origin", d>> <=> HasSocket(d)' /\ cfd'[d] = n
        BY DEF DescriptorsOwned, Serving, HasSocket
      <4>4. /\ table[n] = <<"guest", d>> <=> Serving(d) /\ fd[d] = n
            /\ table[n] = <<"origin", d>> <=> HasSocket(d) /\ cfd[d] = n
        BY <4>1 DEF DescriptorsOwned, Serving, HasSocket
      <4>5. table'[n] = IF n = cfd[c] THEN Nobody ELSE table[n]
        BY <4>1 DEF FdOK
      <4>6. Serving(d)' <=> Serving(d)
        BY <4>1 DEF Serving
      <4>7. CASE d = c
        BY <4>1, <4>4, <4>5, <4>6, <4>7, HoldersDiffer
      <4>8. CASE d # c
        BY <4>1, <4>2, <4>4, <4>5, <4>6, <4>8, HoldersDiffer
      <4>9. QED
        BY <4>7, <4>8
    <3>3. QED
      BY <3>1, <3>2
  <2>9. QED
    BY <2>1, <2>2, <2>3, <2>4, <2>5, <2>6, <2>7, <2>8
<1>3. QED
  BY <1>1, <1>2

LEMMA InitOK == Init => FdOK /\ PcOK /\ Unstarted /\ DescriptorsOwned
<1> SUFFICES ASSUME Init PROVE FdOK /\ PcOK /\ Unstarted /\ DescriptorsOwned
  OBVIOUS
<1>1. CASE Conns = {}
  BY <1>1 DEF Init, FdOK, PcOK, Unstarted, DescriptorsOwned, Holder
<1>2. CASE Conns # {}
  <2>1. 1 \in Fds
    <3>1. Cardinality(Conns) \in Nat /\ Cardinality(Conns) # 0
      BY <1>2, HttpProxyAssumption, FS_CardinalityType, FS_EmptySet
    <3>2. QED
      BY <3>1 DEF Fds
  <2>2. FdOK /\ PcOK /\ Unstarted
    BY <2>1 DEF Init, FdOK, PcOK, Unstarted, Holder
  <2>3. DescriptorsOwned
    BY HoldersDiffer DEF Init, DescriptorsOwned
  <2>4. QED
    BY <2>2, <2>3
<1>3. QED
  BY <1>1, <1>2

\* For every number of guests, whatever they, their origins and connects do and however
\* workers and clients interleave: unless the chance release of a queue's socket
\* has closed somebody's descriptor, every open descriptor has exactly one user,
\* who will close it unless its connect failed (SXServer.c:467-470, SXClient.c:66-72).
THEOREM DescriptorsOwnedHolds == Spec => []DescriptorsOwned
<1>1. FdOK /\ PcOK /\ Unstarted /\ DescriptorsOwned /\ [Next]_vars
        => (FdOK /\ PcOK /\ Unstarted /\ DescriptorsOwned)'
  BY FdNext, PcNext, UnstartedNext, DescriptorsNext
<1>2. QED
  BY InitOK, <1>1, PTL DEF Spec

-----------------------------------------------------------------------------
(* The two halves of a bridge.                                             *)

\* A queue is allocated as long as its worker runs; a client exists from the
\* handler on that makes it, and has a socket, or had one, from its start on.
HalvesOf(c) ==
    /\ pc[c] \notin {"new", "queued", "closed"} => c \in queues
    /\ pc[c] \in {"new", "queued"} => c \notin queues /\ cpc[c] = "none"
    /\ pc[c] = "send" => cpc[c] # "none"
    /\ cpc[c] = "made" => pc[c] \in {"connectIp", "connectName"}
    /\ sock[c] = "none" <=> cpc[c] \in {"none", "made", "freed"}

Halves == \A c \in Conns : HalvesOf(c)

LEMMA HalvesNext == PcOK /\ Unstarted /\ Halves /\ [Next]_vars => Halves'
<1> SUFFICES ASSUME PcOK, Unstarted, Halves, [Next]_vars PROVE Halves'
  OBVIOUS
<1> USE DEF PcOK, Unstarted, Halves, HalvesOf
<1>1. CASE UNCHANGED vars
  BY <1>1 DEF vars
<1>2. CASE Next
  <2> PICK c \in Conns :
             \/ GuestSends(c) \/ GuestLeaves(c) \/ OriginSends(c) \/ OriginLeaves(c)
             \/ Accept(c) \/ Start(c) \/ Recv(c) \/ Eof(c) \/ Parse(c)
             \/ StartClientIp(c) \/ StartClientName(c) \/ Send(c) \/ Close(c) \/ FreeQueue(c)
             \/ ClientStarts(c) \/ ClientRecv(c) \/ Deliver(c) \/ DeliverError(c) \/ ClientEnds(c)
    BY <1>2, NextCases
  <2>1. CASE GuestSends(c) \/ GuestLeaves(c) \/ OriginSends(c) \/ OriginLeaves(c)
    BY <2>1 DEF GuestSends, GuestLeaves, OriginSends, OriginLeaves
  <2>2. CASE Accept(c) \/ Start(c) \/ Recv(c) \/ Eof(c)
    BY <2>2 DEF Accept, Start, Recv, Eof
  <2>3. CASE Parse(c)
    BY <2>3 DEF Parse
  <2>4. CASE StartClientIp(c)
    BY <2>4 DEF StartClientIp, Connected, Opens
  <2>5. CASE StartClientName(c)
    BY <2>5 DEF StartClientName, Connected, Opens
  <2>6. CASE Send(c) \/ Close(c) \/ FreeQueue(c)
    <3>1. CASE Send(c)
      BY <3>1 DEF Send
    <3>2. CASE Close(c)
      BY <3>2 DEF Close
    <3>3. CASE FreeQueue(c)
      BY <3>3 DEF FreeQueue
    <3>4. QED
      BY <2>6, <3>1, <3>2, <3>3
  <2>7. CASE ClientStarts(c) \/ ClientRecv(c)
    BY <2>7 DEF ClientStarts, ClientRecv
  <2>8. CASE Deliver(c) \/ DeliverError(c) \/ ClientEnds(c)
    BY <2>8 DEF Deliver, DeliverError, ClientEnds
  <2>9. QED
    BY <2>1, <2>2, <2>3, <2>4, <2>5, <2>6, <2>7, <2>8
<1>3. QED
  BY <1>1, <1>2

\* Who leaves freed memory behind has seen the other end of his own side hang up: a
\* client that ends, its origin; a worker that leaves its loop, its guest.  A client
\* that has not been started, or has no socket any more, has no open origin.
PartedOf(c) ==
    /\ cpc[c] \in {"none", "made", "end", "freed"} \/ sock[c] = "released"
         => origin[c] # "open"
    /\ pc[c] \in {"eof", "close", "free", "closed"} => peer[c] # "open"
    /\ pc[c] = "wild" \/ cpc[c] = "wild" => peer[c] # "open" \/ origin[c] # "open"

Parted == ~stray => \A c \in Conns : PartedOf(c)

\* A worker and a client that have a descriptor find it their own.
LEMMA OwnTheirs ==
    ASSUME FdOK, DescriptorsOwned, ~stray, NEW c \in Conns
    PROVE  /\ Serving(c) => Own(c)
           /\ HasSocket(c) => COwn(c)
  BY DEF FdOK, DescriptorsOwned, Serving, HasSocket, Own, COwn

\* A stray close is not forgotten.
LEMMA StrayStays == ASSUME [Next]_vars, stray PROVE stray'
<1>1. CASE UNCHANGED vars
  BY <1>1 DEF vars
<1>2. CASE Next
  <2> PICK c \in Conns :
             \/ GuestSends(c) \/ GuestLeaves(c) \/ OriginSends(c) \/ OriginLeaves(c)
             \/ Accept(c) \/ Start(c) \/ Recv(c) \/ Eof(c) \/ Parse(c)
             \/ StartClientIp(c) \/ StartClientName(c) \/ Send(c) \/ Close(c) \/ FreeQueue(c)
             \/ ClientStarts(c) \/ ClientRecv(c) \/ Deliver(c) \/ DeliverError(c) \/ ClientEnds(c)
    BY <1>2, NextCases
  <2>1. CASE GuestSends(c) \/ GuestLeaves(c) \/ OriginSends(c) \/ OriginLeaves(c) \/ Accept(c)
    BY <2>1 DEF GuestSends, GuestLeaves, OriginSends, OriginLeaves, Accept
  <2>2. CASE Start(c) \/ Recv(c) \/ Eof(c) \/ Parse(c) \/ Send(c) \/ Close(c)
    BY <2>2 DEF Start, Recv, Eof, Parse, Send, Close
  <2>3. CASE StartClientIp(c) \/ StartClientName(c)
    BY <2>3 DEF StartClientIp, StartClientName
  <2>4. CASE ClientStarts(c) \/ ClientRecv(c) \/ Deliver(c) \/ DeliverError(c)
    BY <2>4 DEF ClientStarts, ClientRecv, Deliver, DeliverError
  <2>5. CASE FreeQueue(c) \/ ClientEnds(c)
    BY <2>5 DEF FreeQueue, ClientEnds
  <2>6. QED
    BY <2>1, <2>2, <2>3, <2>4, <2>5
<1>3. QED
  BY <1>1, <1>2

LEMMA PartedNext ==
    FdOK /\ PcOK /\ RestOK /\ Unstarted /\ Halves /\ DescriptorsOwned /\ Parted /\ [Next]_vars
        => Parted'
<1> SUFFICES ASSUME FdOK, PcOK, RestOK, Unstarted, Halves, DescriptorsOwned, Parted,
                    [Next]_vars, ~stray'
             PROVE  \A d \in Conns : PartedOf(d)'
  BY DEF Parted
<1>0. ~stray /\ \A d \in Conns : PartedOf(d)
  BY StrayStays DEF Parted
<1> USE DEF PcOK, RestOK, PartedOf
<1>1. CASE UNCHANGED vars
  BY <1>0, <1>1 DEF vars
<1>2. CASE Next
  <2> PICK c \in Conns :
             \/ GuestSends(c) \/ GuestLeaves(c) \/ OriginSends(c) \/ OriginLeaves(c)
             \/ Accept(c) \/ Start(c) \/ Recv(c) \/ Eof(c) \/ Parse(c)
             \/ StartClientIp(c) \/ StartClientName(c) \/ Send(c) \/ Close(c) \/ FreeQueue(c)
             \/ ClientStarts(c) \/ ClientRecv(c) \/ Deliver(c) \/ DeliverError(c) \/ ClientEnds(c)
    BY <1>2, NextCases
  <2>0. /\ Serving(c) => Own(c)
        /\ HasSocket(c) => COwn(c)
        /\ HalvesOf(c)
        /\ pc[c] \in {"connectIp", "connectName"} => cpc[c] = "made" /\ sock[c] = "none"
    BY <1>0, OwnTheirs DEF Halves, Unstarted
  <2>1. CASE GuestSends(c) \/ GuestLeaves(c) \/ OriginSends(c) \/ OriginLeaves(c)
    BY <1>0, <2>1 DEF GuestSends, GuestLeaves, OriginSends, OriginLeaves
  <2>2. CASE Accept(c) \/ Start(c) \/ Eof(c)
    BY <1>0, <2>2 DEF Accept, Start, Eof
  <2>3. CASE Recv(c)
    BY <1>0, <2>0, <2>3 DEF Recv, Serving
  <2>4. CASE Parse(c)
    BY <1>0, <2>4 DEF Parse
  <2>5. CASE StartClientIp(c)
    <3>1. /\ pc' = [pc EXCEPT ![c] = "send"] /\ UNCHANGED peer
          /\ \E l \in {"queued", "idle"} : cpc' = [cpc EXCEPT ![c] = l]
          /\ \E s \in {"open", "unconnected"} : sock' = [sock EXCEPT ![c] = s]
          /\ \E o \in {origin[c], "open"} : origin' = [origin EXCEPT ![c] = o]
      BY <2>5 DEF StartClientIp, Connected, Opens
    <3>2. QED
      BY <1>0, <3>1
  <2>6. CASE StartClientName(c)
    <3>1. CASE pc' = [pc EXCEPT ![c] = "send"] /\ Connected(c)
      <4>1. /\ pc' = [pc EXCEPT ![c] = "send"] /\ UNCHANGED peer
            /\ cpc' = [cpc EXCEPT ![c] = "queued"]
            /\ sock' = [sock EXCEPT ![c] = "open"]
            /\ origin' = [origin EXCEPT ![c] = "open"]
        BY <2>6, <3>1 DEF StartClientName, Connected, Opens
      <4>2. QED
        BY <1>0, <4>1
    <3>2. CASE /\ pc' = [pc EXCEPT ![c] = "send"] /\ UNCHANGED peer
               /\ cpc' = [cpc EXCEPT ![c] = "queued"]
               /\ sock' = [sock EXCEPT ![c] = "released"] /\ UNCHANGED origin
      BY <1>0, <2>0, <2>6, <3>2 DEF StartClientName
    <3>3. CASE UNCHANGED <<pc, cpc, sock, peer, origin>>
      BY <1>0, <3>3
    <3>4. QED
      BY <2>6, <3>1, <3>2, <3>3 DEF StartClientName
  <2>7. CASE Send(c) \/ Close(c) \/ FreeQueue(c)
    <3>1. CASE Send(c)
      BY <1>0, <3>1 DEF Send
    <3>2. CASE Close(c)
      BY <1>0, <3>2 DEF Close
    <3>3. CASE FreeQueue(c)
      BY <1>0, <3>3 DEF FreeQueue
    <3>4. QED
      BY <2>7, <3>1, <3>2, <3>3
  <2>8. CASE ClientStarts(c) \/ ClientRecv(c)
    BY <1>0, <2>0, <2>8 DEF ClientStarts, ClientRecv, HasSocket
  <2>9. CASE Deliver(c) \/ DeliverError(c)
    <3>1. c \in queues \/ peer[c] # "open"
      BY <1>0, <2>0, <2>9 DEF HalvesOf, Deliver, DeliverError
    <3>2. QED
      BY <1>0, <2>9, <3>1 DEF Deliver, DeliverError
  <2>10. CASE ClientEnds(c)
    BY <1>0, <2>10 DEF ClientEnds
  <2>11. QED
    BY <2>1, <2>2, <2>3, <2>4, <2>5, <2>6, <2>7, <2>8, <2>9, <2>10
<1>3. QED
  BY <1>1, <1>2

\* An answer reaches another's descriptor only from a closed one.
NotCrossed == ~stray => \A d \in crossed : pc[d] \in {"free", "closed"}

LEMMA NotCrossedNext ==
    FdOK /\ PcOK /\ RestOK /\ Halves /\ DescriptorsOwned /\ NotCrossed /\ [Next]_vars
        => NotCrossed'
<1> SUFFICES ASSUME FdOK, PcOK, RestOK, Halves, DescriptorsOwned, NotCrossed,
                    [Next]_vars, ~stray'
             PROVE  \A d \in crossed' : pc'[d] \in {"free", "closed"}
  BY DEF NotCrossed
<1>0. ~stray /\ crossed \subseteq Conns /\ \A d \in crossed : pc[d] \in {"free", "closed"}
  BY StrayStays DEF NotCrossed, RestOK
<1> USE DEF PcOK
<1>1. CASE UNCHANGED vars
  BY <1>0, <1>1 DEF vars
<1>2. CASE Next
  <2> PICK c \in Conns :
             \/ GuestSends(c) \/ GuestLeaves(c) \/ OriginSends(c) \/ OriginLeaves(c)
             \/ Accept(c) \/ Start(c) \/ Recv(c) \/ Eof(c) \/ Parse(c)
             \/ StartClientIp(c) \/ StartClientName(c) \/ Send(c) \/ Close(c) \/ FreeQueue(c)
             \/ ClientStarts(c) \/ ClientRecv(c) \/ Deliver(c) \/ DeliverError(c) \/ ClientEnds(c)
    BY <1>2, NextCases
  <2>0. /\ Serving(c) => Own(c)
        /\ HasSocket(c) => COwn(c)
        /\ HalvesOf(c)
    BY <1>0, OwnTheirs DEF Halves
  <2>1. CASE GuestSends(c) \/ GuestLeaves(c) \/ OriginSends(c) \/ OriginLeaves(c)
    BY <1>0, <2>1 DEF GuestSends, GuestLeaves, OriginSends, OriginLeaves
  <2>2. CASE Accept(c) \/ Start(c) \/ Recv(c) \/ Eof(c) \/ Parse(c)
    BY <1>0, <2>2 DEF Accept, Start, Recv, Eof, Parse
  <2>3. CASE StartClientIp(c) \/ StartClientName(c)
    BY <1>0, <2>3 DEF StartClientIp, StartClientName
  <2>4. CASE Send(c)
    <3>1. crossed' = crossed
      BY <2>0, <2>4 DEF Send, HalvesOf, HasSocket, COwn
    <3>2. QED
      BY <1>0, <2>4, <3>1 DEF Send
  <2>5. CASE Close(c) \/ FreeQueue(c)
    BY <1>0, <2>5 DEF Close, FreeQueue
  <2>6. CASE ClientStarts(c) \/ ClientRecv(c) \/ DeliverError(c) \/ ClientEnds(c)
    BY <1>0, <2>6 DEF ClientStarts, ClientRecv, DeliverError, ClientEnds
  <2>7. CASE Deliver(c)
    <3>1. crossed' = crossed \/ (crossed' = crossed \cup {c} /\ ~Own(c) /\ c \in queues)
      BY <2>7 DEF Deliver, Own
    <3>2. ~Own(c) /\ c \in queues => pc[c] \in {"free", "closed"}
      BY <2>0 DEF HalvesOf, Serving
    <3>3. QED
      BY <1>0, <2>7, <3>1, <3>2 DEF Deliver
  <2>8. QED
    BY <2>1, <2>2, <2>3, <2>4, <2>5, <2>6, <2>7
<1>3. QED
  BY <1>1, <1>2

LEMMA RestInit == Init => RestOK
<1> SUFFICES ASSUME Init PROVE RestOK
  OBVIOUS
<1>1. 0 \in 0..MaxUnread
  BY HttpProxyAssumption
<1>2. inbox \in [Conns -> 0..MaxUnread] /\ unread \in [Conns -> 0..MaxUnread]
  BY <1>1 DEF Init
<1>3. /\ peer \in [Conns -> {"open", "fin", "rst"}]
      /\ origin \in [Conns -> {"none", "open", "fin", "rst"}]
  BY DEF Init
<1>4. queues \subseteq Conns /\ crossed \subseteq Conns /\ crashed \in BOOLEAN
  BY DEF Init
<1>5. QED
  BY <1>2, <1>3, <1>4 DEF RestOK

BridgeInv == FdOK /\ PcOK /\ RestOK /\ Unstarted /\ DescriptorsOwned
             /\ Halves /\ Parted /\ NotCrossed

LEMMA BridgeInit == Init => BridgeInv
<1> SUFFICES ASSUME Init PROVE BridgeInv
  OBVIOUS
<1>1. Halves /\ Parted /\ NotCrossed
  BY DEF Init, Halves, HalvesOf, Parted, PartedOf, NotCrossed
<1>2. QED
  BY <1>1, InitOK, RestInit DEF BridgeInv

LEMMA BridgeNext == BridgeInv /\ [Next]_vars => BridgeInv'
  BY FdNext, PcNext, RestNext, UnstartedNext, DescriptorsNext, HalvesNext, PartedNext,
     NotCrossedNext DEF BridgeInv

\* For any number of guests and whoever hangs up when: barring the chance release of a
\* queue's socket, no half of a bridge touches freed memory while both ends are
\* connected, and no byte leaves the bridge while its guest is served
\* (main.c:104-114, 188-189; SXServer.c:467-470, SXClient.c:145).
THEOREM BridgeSafeHolds == Spec => []BridgeSafe
<1>1. BridgeInv => BridgeSafe
  BY DEF BridgeInv, Parted, PartedOf, NotCrossed, BridgeSafe
<1>2. QED
  BY BridgeInit, BridgeNext, <1>1, PTL DEF Spec

-----------------------------------------------------------------------------
(* No half waits for the other.                                            *)

\* What the worker and the client of c wait for, read off the guards of their steps.
WorkerReady(c) ==
    \/ pc[c] \in {"queued", "eof", "connectName", "send", "close", "free"}
    \/ pc[c] = "recv" /\ (Own(c) => inbox[c] > 0 \/ peer[c] # "open")
    \/ pc[c] = "data" /\ \/ Survivable # Requests
                         \/ Survivable # {} /\ cpc[c] # "none"
                         \/ Domains # {} /\ cpc[c] = "none"
    \/ pc[c] = "connectIp" /\ \E n \in Fds : Lowest(n)

ClientReady(c) ==
    \/ cpc[c] \in {"queued", "deliver", "error", "end"}
    \/ cpc[c] = "recv" /\ \/ sock[c] = "released"
                          \/ /\ sock[c] = "open"
                             /\ COwn(c) => unread[c] > 0 \/ origin[c] \in {"fin", "rst"}

Ready(c) == ~crashed /\ (WorkerReady(c) \/ ClientReady(c))

\* A step is taken only by who is ready.
LEMMA StepsAreReady ==
    ASSUME NEW c \in Conns, WorkerStep(c) \/ ClientStep(c)
    PROVE  Ready(c)
<1> USE DEF Ready, WorkerReady, ClientReady
<1>1. ~crashed
  BY DEF WorkerStep, ClientStep
<1>2. CASE Start(c) \/ Recv(c) \/ Eof(c) \/ Send(c) \/ Close(c) \/ FreeQueue(c)
  BY <1>1, <1>2 DEF Start, Recv, Eof, Send, Close, FreeQueue
<1>3. CASE Parse(c)
  BY <1>1, <1>3 DEF Parse
<1>4. CASE StartClientIp(c) \/ StartClientName(c)
  BY <1>1, <1>4 DEF StartClientIp, StartClientName, Connected, Opens
<1>5. CASE ClientStarts(c) \/ ClientRecv(c) \/ Deliver(c) \/ DeliverError(c) \/ ClientEnds(c)
  BY <1>1, <1>5 DEF ClientStarts, ClientRecv, Deliver, DeliverError, ClientEnds
<1>6. QED
  BY <1>2, <1>3, <1>4, <1>5 DEF WorkerStep, ClientStep

\* An origin has been reached by a client that was started; a block has a socket or has
\* released it; a worker that is closed has freed its queue; and who has a client has
\* sent a request that can be parsed.
ReachedOf(c) ==
    /\ cpc[c] \in {"none", "made", "idle"} => origin[c] = "none"
    /\ cpc[c] \in BlockPc => sock[c] \in {"open", "released"}
    /\ pc[c] = "closed" => c \notin queues
    /\ cpc[c] # "none" => Survivable # {}

Reached == \A c \in Conns : ReachedOf(c)

LEMMA ReachedNext == PcOK /\ RestOK /\ Unstarted /\ Reached /\ [Next]_vars => Reached'
<1> SUFFICES ASSUME PcOK, RestOK, Unstarted, Reached, [Next]_vars PROVE Reached'
  OBVIOUS
<1> USE DEF PcOK, RestOK, Unstarted, Reached, ReachedOf
<1>1. CASE UNCHANGED vars
  BY <1>1 DEF vars
<1>2. CASE Next
  <2> PICK c \in Conns :
             \/ GuestSends(c) \/ GuestLeaves(c) \/ OriginSends(c) \/ OriginLeaves(c)
             \/ Accept(c) \/ Start(c) \/ Recv(c) \/ Eof(c) \/ Parse(c)
             \/ StartClientIp(c) \/ StartClientName(c) \/ Send(c) \/ Close(c) \/ FreeQueue(c)
             \/ ClientStarts(c) \/ ClientRecv(c) \/ Deliver(c) \/ DeliverError(c) \/ ClientEnds(c)
    BY <1>2, NextCases
  <2>1. CASE GuestSends(c) \/ GuestLeaves(c) \/ OriginSends(c) \/ OriginLeaves(c)
    BY <2>1 DEF GuestSends, GuestLeaves, OriginSends, OriginLeaves
  <2>2. CASE Accept(c) \/ Start(c) \/ Recv(c) \/ Eof(c)
    BY <2>2 DEF Accept, Start, Recv, Eof
  <2>3. CASE Parse(c)
    <3>1. Domains # {} => Survivable # {}
      BY DEF Domains
    <3>2. QED
      BY <2>3, <3>1 DEF Parse
  <2>4. CASE StartClientIp(c)
    BY <2>4 DEF StartClientIp, Connected, Opens
  <2>5. CASE StartClientName(c)
    <3>1. CASE Connected(c)
      BY <2>5, <3>1 DEF StartClientName, Connected, Opens
    <3>2. CASE CGoto(c, "queued") /\ sock' = [sock EXCEPT ![c] = "released"] /\ UNCHANGED origin
      BY <2>5, <3>2 DEF StartClientName
    <3>3. CASE UNCHANGED <<pc, cpc, sock, origin>>
      BY <2>5, <3>3 DEF StartClientName
    <3>4. QED
      BY <2>5, <3>1, <3>2, <3>3 DEF StartClientName
  <2>6. CASE Send(c) \/ Close(c) \/ FreeQueue(c)
    <3>1. CASE Send(c)
      BY <3>1 DEF Send
    <3>2. CASE Close(c)
      BY <3>2 DEF Close
    <3>3. CASE FreeQueue(c)
      BY <3>3 DEF FreeQueue
    <3>4. QED
      BY <2>6, <3>1, <3>2, <3>3
  <2>7. CASE ClientStarts(c) \/ ClientRecv(c)
    BY <2>7 DEF ClientStarts, ClientRecv
  <2>8. CASE Deliver(c) \/ DeliverError(c) \/ ClientEnds(c)
    BY <2>8 DEF Deliver, DeliverError, ClientEnds
  <2>9. QED
    BY <2>1, <2>2, <2>3, <2>4, <2>5, <2>6, <2>7, <2>8
<1>3. QED
  BY <1>1, <1>2

\* NoHalfLeft, with what the two are ready for in the place of ENABLED.
NoHalfWaits ==
    \A c \in Conns :
        /\ peer[c] # "open" /\ origin[c] \in {"fin", "rst"}
        /\ ~stray /\ ~crashed /\ "wild" \notin {pc[c], cpc[c]}
        /\ ~Ready(c)
        => c \notin queues /\ cpc[c] = "freed"

LEMMA WaitsForNobody == BridgeInv /\ Reached => NoHalfWaits
<1> SUFFICES ASSUME BridgeInv, Reached, NEW c \in Conns,
                    peer[c] # "open", origin[c] \in {"fin", "rst"},
                    ~stray, ~crashed, pc[c] # "wild", cpc[c] # "wild",
                    ~WorkerReady(c), ~ClientReady(c)
             PROVE  c \notin queues /\ cpc[c] = "freed"
  BY DEF NoHalfWaits, Ready
<1>1. /\ Serving(c) => Own(c)
      /\ HasSocket(c) => COwn(c)
      /\ HalvesOf(c) /\ ReachedOf(c)
      /\ pc[c] \in {"connectIp", "connectName"} => cpc[c] = "made"
  BY OwnTheirs DEF BridgeInv, Halves, Reached, Unstarted
<1>2. cpc[c] \notin {"none", "made", "idle"} /\ Survivable # {}
  BY <1>1 DEF ReachedOf
\* The guest has hung up: the worker gets through its loop.
<1>3. pc[c] = "closed"
  BY <1>1, <1>2 DEF BridgeInv, PcOK, WorkerReady, Serving, HalvesOf
\* So has the origin, and the client has its socket or finds it gone.
<1>4. cpc[c] = "freed"
  BY <1>1, <1>2 DEF BridgeInv, PcOK, ClientReady, HasSocket, ReachedOf
<1>5. QED
  BY <1>1, <1>3, <1>4 DEF ReachedOf

\* For any number of guests: once both ends of a bridge have hung up, its worker or its
\* client has a step left until both halves are freed, whichever of them noticed first,
\* barring what NoHalfLeft excepts (SXServer.c:464-471, SXClient.c:135-145).
THEOREM NoHalfWaitsHolds == Spec => []NoHalfWaits
<1>1. Init => Reached
  BY DEF Init, Reached, ReachedOf
<1>2. Spec => []BridgeInv
  BY BridgeInit, BridgeNext, PTL DEF Spec
<1>3. BridgeInv /\ Reached /\ [Next]_vars => Reached'
  BY ReachedNext DEF BridgeInv
<1>4. QED
  BY <1>1, <1>2, <1>3, WaitsForNobody, PTL DEF Spec

\* Every variable of the proxy keeps its type.
THEOREM TypeCorrect == Spec => []TypeOK
<1>1. Init => FdOK /\ PcOK /\ RestOK
  BY InitOK, RestInit
<1>2. FdOK /\ PcOK /\ RestOK /\ [Next]_vars => (FdOK /\ PcOK /\ RestOK)'
  BY FdNext, PcNext, RestNext
<1>3. FdOK /\ PcOK /\ RestOK => TypeOK
  BY DEF FdOK, PcOK, RestOK, TypeOK, Holder
<1>4. QED
  BY <1>1, <1>2, <1>3, PTL DEF Spec

-----------------------------------------------------------------------------
(* The rest is about data: what the operators on strings compute of every  *)
(* string.  A loop is a recursive function; that it keeps a property to    *)
(* its end is shown with UpTo, over the set of the turns that keep it.     *)

Less == {ss \in Nat \X Nat : ss[1] < ss[2]}

\* The order of the naturals, as the library states it, and its least elements.
LEMMA LessIsWellFounded == IsWellFoundedOn(Less, Nat)
  BY NatLessThanWellFounded, Zenon DEF OpToRel, Less

\* A set of naturals that is not empty has its minimum, which is below all others.
LEMMA LeastOf ==
    ASSUME NEW S, S \subseteq Nat, S # {}
    PROVE  Min(S) \in S /\ \A i \in S : Min(S) =< i
<1>1. PICK m \in S : \A i \in S : <<i, m>> \notin Less
  BY LessIsWellFounded, WFMin
<1>2. \A i, j \in Nat : <<i, j>> \in Less <=> i < j
  BY DEF Less
<1>3. \A i \in S : ~(i < m)
  BY <1>1, <1>2
<1>4. \A i \in S : m =< i
  BY <1>3
<1>5. QED
  BY <1>4 DEF Min

\* Induction up to n, over the set of the numbers for which a formula holds.
LEMMA UpTo ==
    ASSUME NEW n \in Nat, NEW S, 0 \in S, \A k \in 1..n : k - 1 \in S => k \in S
    PROVE  0..n \subseteq S
<1>1. SUFFICES ASSUME (0..n) \ S # {} PROVE FALSE
  OBVIOUS
<1> DEFINE m == Min((0..n) \ S)
<1>2. m \in (0..n) \ S /\ \A i \in (0..n) \ S : m =< i
  BY <1>1, LeastOf
<1>3. m \in 1..n /\ m - 1 \in 0..n
  BY <1>2
<1>4. m - 1 \in S
  BY <1>2, <1>3
<1>5. QED
  BY <1>2, <1>3, <1>4

\* What the turns of a loop leave, if the k-th turns x into G[k][x].
Turns(n, a, G) == CHOOSE f : f = [k \in 0..n |-> IF k = 0 THEN a ELSE G[k][f[k - 1]]]

AreTurns(f, n, A, a, G) ==
    f \in [0..n -> A] /\ f[0] = a /\ \A k \in 1..n : f[k] = G[k][f[k - 1]]

\* Such a loop runs: the function of its states exists and is what its equation says.
LEMMA TurnsRun ==
    ASSUME NEW n \in Nat, NEW A, NEW a \in A, NEW G \in [1..n -> [A -> A]]
    PROVE  AreTurns(Turns(n, a, G), n, A, a, G)
<1> DEFINE Runs(m, f) == f \in [0..m -> A] /\ f[0] = a /\ \A k \in 1..m : f[k] = G[k][f[k - 1]]
           S == {m \in 0..n : \E f : Runs(m, f)}
           g == Turns(n, a, G)
<1>1. 0 \in S
  <2>1. Runs(0, [k \in 0..0 |-> a])
    OBVIOUS
  <2> HIDE DEF Runs
  <2>2. \E f : Runs(0, f)
    BY <2>1
  <2>3. QED
    BY <2>2
<1>2. ASSUME NEW m \in 1..n, m - 1 \in S PROVE m \in S
  <2>1. PICK f : Runs(m - 1, f)
    BY <1>2
  <2> DEFINE h == [k \in 0..m |-> IF k = m THEN G[m][f[m - 1]] ELSE f[k]]
  <2>2. f[m - 1] \in A
    BY <2>1
  <2>3. G[m][f[m - 1]] \in A
    BY <2>2
  <2>4. h \in [0..m -> A] /\ h[0] = a
    BY <2>1, <2>3
  <2>5. ASSUME NEW k \in 1..m PROVE h[k] = G[k][h[k - 1]]
    BY <2>1
  <2>6. Runs(m, h)
    BY <2>4, <2>5
  <2> HIDE DEF Runs, h
  <2>7. \E i : Runs(m, i)
    BY <2>6
  <2>8. QED
    BY <2>7
<1>3. n \in S
  <2> HIDE DEF S
  <2>1. 0..n \subseteq S
    BY <1>1, <1>2, UpTo
  <2>2. QED
    BY <2>1
<1>4. PICK f : Runs(n, f)
  BY <1>3
<1>5. f = [k \in 0..n |-> IF k = 0 THEN a ELSE G[k][f[k - 1]]]
  BY <1>4
<1>6. g = [k \in 0..n |-> IF k = 0 THEN a ELSE G[k][g[k - 1]]]
  BY <1>5 DEF Turns
<1> HIDE DEF g, S
<1> DEFINE T == {k \in 0..n : g[k] \in A}
<1>7. 0 \in T /\ \A k \in 1..n : k - 1 \in T => k \in T
  BY <1>6
<1>8. 0..n \subseteq T
  <2> HIDE DEF T
  <2>1. QED
    BY <1>7, UpTo
<1>9. Runs(n, g)
  BY <1>6, <1>8
<1>10. QED
  BY <1>9 DEF g, AreTurns

\* The loop of the search, turn by turn (SXString.c:60-62).
LEMMA LocationsLoop ==
    ASSUME NEW C, NEW s \in Seq(C), NEW t \in Seq(C)
    PROVE  \E f : /\ f \in [0..Len(s) -> Seq(Nat)] /\ f[0] = <<>>
                  /\ \A k \in 1..Len(s) :
                       f[k] = IF MatchesAt(s, k - 1, t) THEN Append(f[k - 1], k - 1) ELSE f[k - 1]
                  /\ SXStringSubCStringLocations(s, t) = f[Len(s)]
<1> DEFINE A == Seq(Nat)
           n == Len(s)
           step(x, k) == IF MatchesAt(s, k - 1, t) THEN Append(x, k - 1) ELSE x
           G == [k \in 1..n |-> [x \in A |-> step(x, k)]]
           f == Turns(n, <<>>, G)
           g == CHOOSE g : g = [k \in 0..n |-> IF k = 0 THEN <<>> ELSE step(g[k - 1], k)]
<1>1. n \in Nat /\ <<>> \in A
  OBVIOUS
<1>2. \A x \in A, k \in 1..n : step(x, k) \in A
  OBVIOUS
<1>3. SXStringSubCStringLocations(s, t) = g[n]
  BY DEF SXStringSubCStringLocations, Loop
<1> HIDE DEF A, n, step
<1>4. G \in [1..n -> [A -> A]]
  BY <1>2
<1>5. \A k \in 1..n, x \in A : G[k][x] = step(x, k)
  OBVIOUS
<1> HIDE DEF G
<1>6. AreTurns(f, n, A, <<>>, G)
  BY <1>1, <1>4, TurnsRun, Zenon
<1> HIDE DEF f
<1>7. ASSUME NEW k \in 1..n PROVE f[k - 1] \in A /\ f[k] = step(f[k - 1], k)
  BY <1>1, <1>5, <1>6 DEF AreTurns
<1>8. f = [k \in 0..n |-> IF k = 0 THEN <<>> ELSE step(f[k - 1], k)]
  BY <1>6, <1>7 DEF AreTurns
<1>9. g = [k \in 0..n |-> IF k = 0 THEN <<>> ELSE step(g[k - 1], k)]
  BY <1>8
<1> HIDE DEF g
<1> DEFINE T == {k \in 0..n : g[k] \in A}
<1>10. 0 \in T /\ \A k \in 1..n : k - 1 \in T => k \in T
  BY <1>1, <1>2, <1>9
<1> HIDE DEF T
<1>11. 0..n \subseteq T
  BY <1>1, <1>10, UpTo
<1>12. g \in [0..n -> A] /\ g[0] = <<>> /\ \A k \in 1..n : g[k] = step(g[k - 1], k)
  BY <1>1, <1>9, <1>11 DEF T
<1>13. QED
  BY <1>1, <1>3, <1>12 DEF A, n, step

-----------------------------------------------------------------------------
(* Parts of a string.                                                      *)

\* What stands from position i on and before position j.
Part(s, i, j) == SubSeq(s, i + 1, j)

\* Length and characters of a part.
LEMMA PartIs ==
    ASSUME NEW C, NEW s \in Seq(C), NEW i \in Nat, NEW j \in Nat, i <= j, j <= Len(s)
    PROVE  /\ Part(s, i, j) \in Seq(C) /\ Len(Part(s, i, j)) = j - i
           /\ \A k \in 1..j - i : Part(s, i, j)[k] = s[i + k]
  BY SubSeqProperties DEF Part

IsPart(p, C, s, i, j) ==
    p \in Seq(C) /\ Len(p) = j - i /\ \A k \in 1..j - i : p[k] = s[i + k]

\* The same, as one formula.
LEMMA PartIsPart ==
    ASSUME NEW C, NEW s \in Seq(C), NEW i \in Nat, NEW j \in Nat, i <= j, j <= Len(s)
    PROVE  IsPart(Part(s, i, j), C, s, i, j)
  BY PartIs DEF IsPart

\* Two parts that meet are one.
LEMMA PartsMeet ==
    ASSUME NEW C, NEW s \in Seq(C), NEW i \in Nat, NEW j \in Nat, NEW k \in Nat,
           i <= j, j <= k, k <= Len(s)
    PROVE  Part(s, i, j) \o Part(s, j, k) = Part(s, i, k)
<1>1. i + 1 \in 1..Len(s) + 1 /\ j \in (i + 1) - 1..Len(s) /\ k \in j..Len(s)
  OBVIOUS
<1>2. QED
  BY <1>1, ConcatAdjacentSubSeq, Zenon DEF Part

\* The whole string is a part of itself.
LEMMA PartAll == ASSUME NEW C, NEW s \in Seq(C) PROVE Part(s, 0, Len(s)) = s
  BY SubSeqFull DEF Part

\* Between a position and itself there is nothing.
LEMMA PartNone == ASSUME NEW s, NEW i \in Nat PROVE Part(s, i, i) = <<>>
  BY SubSeqEmpty DEF Part

\* Between a position and the next there is one character.
LEMMA PartOne ==
    ASSUME NEW C, NEW s \in Seq(C), NEW i \in Nat, i < Len(s)
    PROVE  Part(s, i, i + 1) = <<s[i + 1]>>
<1> DEFINE p == Part(s, i, i + 1)  x == s[i + 1]
<1>1. i + 1 \in Nat /\ i <= i + 1 /\ i + 1 <= Len(s) /\ (i + 1) - i = 1 /\ i + 1 \in 1..Len(s)
  OBVIOUS
<1>2. p \in Seq(C) /\ Len(p) = (i + 1) - i /\ \A k \in 1..(i + 1) - i : p[k] = s[i + k]
  BY <1>1, PartIs, Zenon
<1>3. x \in C
  BY <1>1
<1> HIDE DEF p
<1>4. Len(p) = 1 /\ p[1] = x
  BY <1>1, <1>2
<1> HIDE DEF x
<1>5. <<x>> \in Seq(C) /\ Len(<<x>>) = 1 /\ <<x>>[1] = x
  BY <1>3
<1>6. Len(p) = Len(<<x>>) /\ \A k \in 1..Len(p) : p[k] = <<x>>[k]
  BY <1>4, <1>5
<1>7. p = <<x>>
  BY <1>2, <1>5, <1>6, SeqEqual, Zenon
<1>8. QED
  BY <1>7 DEF p, x

\* A part of a part is a part of the string.
LEMMA PartOfPart ==
    ASSUME NEW C, NEW s \in Seq(C), NEW i \in Nat, NEW j \in Nat, NEW k \in Nat, NEW l \in Nat,
           i <= j, j <= Len(s), k <= l, l <= j - i
    PROVE  Part(Part(s, i, j), k, l) = Part(s, i + k, i + l)
<1> DEFINE p == Part(s, i, j)  q == Part(p, k, l)  r == Part(s, i + k, i + l)
<1>1. p \in Seq(C) /\ Len(p) = j - i /\ \A x \in 1..j - i : p[x] = s[i + x]
  BY PartIs, Zenon
<1> HIDE DEF p
<1>2. q \in Seq(C) /\ Len(q) = l - k /\ \A x \in 1..l - k : q[x] = p[k + x]
  <2>1. p \in Seq(C) /\ l <= Len(p)
    BY <1>1
  <2>2. QED
    BY <2>1, PartIs, Zenon
<1>3. r \in Seq(C) /\ Len(r) = (i + l) - (i + k) /\ \A x \in 1..(i + l) - (i + k) : r[x] = s[i + k + x]
  <2>1. i + k \in Nat /\ i + l \in Nat /\ i + k <= i + l /\ i + l <= Len(s)
    OBVIOUS
  <2>2. QED
    BY <2>1, PartIs, Zenon
<1> HIDE DEF q, r
<1>4. \A x \in 1..Len(q) : q[x] = r[x]
  BY <1>1, <1>2, <1>3
<1>5. Len(q) = Len(r)
  BY <1>2, <1>3
<1>6. q = r
  BY <1>2, <1>3, <1>4, <1>5, SeqEqual, Zenon
<1>7. QED
  BY <1>6 DEF p, q, r

\* The two parts a concatenation was made of.
LEMMA PartsOfConcat ==
    ASSUME NEW C, NEW s \in Seq(C), NEW t \in Seq(C)
    PROVE  /\ Part(s \o t, 0, Len(s)) = s
           /\ Part(s \o t, Len(s), Len(s \o t)) = t
<1> DEFINE w == s \o t  p == Part(w, 0, Len(s))  q == Part(w, Len(s), Len(w))
<1>1. /\ w \in Seq(C) /\ Len(w) = Len(s) + Len(t)
      /\ \A x \in 1..Len(s) + Len(t) : w[x] = IF x <= Len(s) THEN s[x] ELSE t[x - Len(s)]
  BY ConcatProperties
<1>2. Len(s) \in Nat /\ Len(t) \in Nat /\ Len(w) \in Nat /\ 0 \in Nat
  BY <1>1
<1> HIDE DEF w
<1>3. p \in Seq(C) /\ Len(p) = Len(s) - 0 /\ \A x \in 1..Len(s) - 0 : p[x] = w[0 + x]
  <2>1. w \in Seq(C) /\ 0 <= Len(s) /\ Len(s) <= Len(w)
    BY <1>1, <1>2
  <2>2. QED
    BY <1>2, <2>1, PartIs, Zenon
<1>4. q \in Seq(C) /\ Len(q) = Len(w) - Len(s) /\ \A x \in 1..Len(w) - Len(s) : q[x] = w[Len(s) + x]
  <2>1. w \in Seq(C) /\ Len(s) <= Len(w) /\ Len(w) <= Len(w)
    BY <1>1, <1>2
  <2>2. QED
    BY <1>2, <2>1, PartIs, Zenon
<1> HIDE DEF p, q
<1>5. p = s
  <2>1. Len(p) = Len(s) /\ \A x \in 1..Len(p) : p[x] = s[x]
    BY <1>1, <1>2, <1>3
  <2>2. QED
    BY <1>3, <2>1, SeqEqual, Zenon
<1>6. q = t
  <2>1. Len(q) = Len(t)
    BY <1>1, <1>2, <1>4
  <2>2. ASSUME NEW x \in 1..Len(q) PROVE q[x] = t[x]
    <3>1. Len(s) + x \in 1..Len(s) + Len(t) /\ ~(Len(s) + x <= Len(s)) /\ (Len(s) + x) - Len(s) = x
      BY <1>2, <2>1
    <3>2. x \in 1..Len(w) - Len(s)
      BY <1>4
    <3>3. QED
      BY <1>1, <1>4, <3>1, <3>2
  <2>3. QED
    BY <1>4, <2>1, <2>2, SeqEqual, Zenon
<1>7. QED
  BY <1>5, <1>6 DEF p, q, w

\* A string occurs where it is the part of its length.
LEMMA MatchIsPart ==
    ASSUME NEW C, NEW s \in Seq(C), NEW t \in Seq(C), NEW i \in Nat
    PROVE  MatchesAt(s, i, t) <=> i + Len(t) <= Len(s) /\ Part(s, i, i + Len(t)) = t
  BY DEF MatchesAt, Part

-----------------------------------------------------------------------------
(* Searching.                                                              *)

\* locas lists the numbers of a set in their order.
Lists(locas, S) ==
    /\ locas \in Seq(Nat)
    /\ \A i, j \in 1..Len(locas) : i < j => locas[i] < locas[j]
    /\ \A i \in 1..Len(locas) : locas[i] \in S
    /\ \A x \in S : \E i \in 1..Len(locas) : locas[i] = x

\* The search returns all occurrences, each once and in order.
LEMMA LocationsList ==
    ASSUME NEW C, NEW s \in Seq(C), NEW t \in Seq(C)
    PROVE  Lists(SXStringSubCStringLocations(s, t), Occurrences(s, t))
<1> DEFINE n == Len(s)
           Before(k) == {i \in 0..k - 1 : MatchesAt(s, i, t)}
<1>1. PICK f : /\ f \in [0..n -> Seq(Nat)] /\ f[0] = <<>>
               /\ \A k \in 1..n :
                    f[k] = IF MatchesAt(s, k - 1, t) THEN Append(f[k - 1], k - 1) ELSE f[k - 1]
               /\ SXStringSubCStringLocations(s, t) = f[n]
  BY LocationsLoop
<1> DEFINE S == {k \in 0..n : Lists(f[k], Before(k))}
<1>2. 0 \in S
  BY <1>1 DEF Lists
<1>3. ASSUME NEW k \in 1..n, k - 1 \in S PROVE k \in S
  <2> DEFINE a == f[k - 1]  b == f[k]
  <2>1. k \in 0..n /\ k - 1 \in 0..n /\ k - 1 \in Nat
    OBVIOUS
  <2>2. Lists(a, Before(k - 1))
    BY <1>3
  <2>3. b = IF MatchesAt(s, k - 1, t) THEN Append(a, k - 1) ELSE a
    BY <1>1
  <2> SUFFICES Lists(b, Before(k))
    BY <2>1
  <2> HIDE DEF a, b
  <2>4. CASE ~MatchesAt(s, k - 1, t)
    <3>1. Before(k) = Before(k - 1)
      BY <2>4
    <3>2. QED
      BY <2>2, <2>3, <2>4, <3>1, Zenon
  <2>5. CASE MatchesAt(s, k - 1, t)
    <3>1. b = Append(a, k - 1) /\ a \in Seq(Nat)
      BY <2>2, <2>3, <2>5 DEF Lists
    <3>2. /\ b \in Seq(Nat) /\ Len(b) = Len(a) + 1 /\ Len(a) \in Nat
          /\ \A i \in 1..Len(a) : b[i] = a[i]
          /\ b[Len(a) + 1] = k - 1
      BY <2>1, <3>1, AppendProperties
    <3>3. \A x \in Before(k) : x \in Before(k - 1) \/ x = k - 1
      OBVIOUS
    <3>4. k - 1 \in Before(k) /\ \A x \in Before(k - 1) : x \in Before(k) /\ x < k - 1
      BY <2>5
    <3> HIDE DEF Before
    <3>5. \A i \in 1..Len(b) : i \in 1..Len(a) \/ i = Len(a) + 1
      BY <3>2
    <3>6. \A i \in 1..Len(a) : a[i] \in Before(k) /\ a[i] < k - 1 /\ i \in 1..Len(b) /\ b[i] = a[i]
      <4>1. \A i \in 1..Len(a) : a[i] \in Before(k - 1)
        BY <2>2 DEF Lists
      <4>2. \A i \in 1..Len(a) : i \in 1..Len(b)
        BY <3>2
      <4>3. QED
        BY <3>2, <3>4, <4>1, <4>2
    <3>7. ASSUME NEW i \in 1..Len(b), NEW j \in 1..Len(b), i < j PROVE b[i] < b[j]
      <4>1. i \in 1..Len(a)
        BY <3>2, <3>7
      <4>2. CASE j \in 1..Len(a)
        BY <2>2, <3>6, <3>7, <4>1, <4>2 DEF Lists
      <4>3. CASE j = Len(a) + 1
        BY <3>2, <3>6, <4>1, <4>3
      <4>4. QED
        BY <3>5, <4>2, <4>3
    <3>8. \A i \in 1..Len(b) : b[i] \in Before(k)
      BY <3>2, <3>4, <3>5, <3>6
    <3>9. ASSUME NEW x \in Before(k) PROVE \E i \in 1..Len(b) : b[i] = x
      <4>1. CASE x \in Before(k - 1)
        BY <2>2, <3>6, <4>1 DEF Lists
      <4>2. CASE x = k - 1
        BY <3>2, <4>2
      <4>3. QED
        BY <3>3, <4>1, <4>2
    <3>10. QED
      BY <3>2, <3>7, <3>8, <3>9 DEF Lists
  <2>6. QED
    BY <2>4, <2>5
<1>4. n \in S
  <2>1. n \in Nat
    OBVIOUS
  <2> HIDE DEF S, n
  <2>2. 0..n \subseteq S
    BY <1>2, <1>3, <2>1, UpTo
  <2>3. QED
    BY <2>1, <2>2
<1>5. Before(n) = Occurrences(s, t)
  BY DEF Occurrences
<1>6. QED
  BY <1>1, <1>4, <1>5

\* What the search returns is a sequence of positions.
LEMMA LocationsSeq ==
    ASSUME NEW C, NEW s \in Seq(C), NEW t \in Seq(C)
    PROVE  /\ SXStringSubCStringLocations(s, t) \in Seq(Nat)
           /\ Len(SXStringSubCStringLocations(s, t)) \in Nat
<1>1. SXStringSubCStringLocations(s, t) \in Seq(Nat)
  BY LocationsList, Zenon DEF Lists
<1>2. QED
  BY <1>1

\* Each of them is a position where the string occurs.
LEMMA LocationIs ==
    ASSUME NEW C, NEW s \in Seq(C), NEW t \in Seq(C),
           NEW i \in 1..Len(SXStringSubCStringLocations(s, t))
    PROVE  LET l == SXStringSubCStringLocations(s, t)[i]
           IN  /\ l \in Nat /\ l < Len(s) /\ l + Len(t) <= Len(s)
               /\ Part(s, l, l + Len(t)) = t /\ MatchesAt(s, l, t)
<1> DEFINE l == SXStringSubCStringLocations(s, t)[i]
<1>1. l \in Occurrences(s, t)
  BY LocationsList DEF Lists
<1> HIDE DEF l
<1>2. l \in Nat /\ l < Len(s) /\ MatchesAt(s, l, t)
  BY <1>1 DEF Occurrences
<1>3. l + Len(t) <= Len(s) /\ Part(s, l, l + Len(t)) = t
  BY <1>2, MatchIsPart, Zenon
<1>4. QED
  BY <1>2, <1>3 DEF l

-----------------------------------------------------------------------------
(* Cutting.  Piece i of a string stands between PieceFrom and PieceTo.     *)

PieceFrom(s, t, i) ==
    IF i = 1 THEN 0 ELSE SXStringSubCStringLocations(s, t)[i - 1] + Len(t)

PieceTo(s, t, i) ==
    LET locas == SXStringSubCStringLocations(s, t)
    IN  IF i = Len(locas) + 1 THEN Len(s) ELSE locas[i]

\* The number of pieces, if there is an occurrence.
Pieces(s, t) == Len(SXStringSubCStringLocations(s, t)) + 1

\* The ends of a piece are positions in the string.
LEMMA PieceEnds ==
    ASSUME NEW C, NEW s \in Seq(C), NEW t \in Seq(C), NEW i \in 1..Pieces(s, t)
    PROVE  /\ PieceFrom(s, t, i) \in Nat /\ PieceFrom(s, t, i) <= Len(s)
           /\ PieceTo(s, t, i) \in Nat /\ PieceTo(s, t, i) <= Len(s)
           /\ Pieces(s, t) \in Nat
<1> DEFINE L == SXStringSubCStringLocations(s, t)
<1>1. Len(L) \in Nat /\ Len(s) \in Nat /\ Len(t) \in Nat
  <2>1. Len(L) \in Nat
    BY LocationsSeq
  <2>2. QED
    BY <2>1
<1>2. \A j \in 1..Len(L) : L[j] \in Nat /\ L[j] < Len(s) /\ L[j] + Len(t) <= Len(s)
  BY LocationIs
<1> HIDE DEF L
<1>3. CASE i = 1
  BY <1>1, <1>2, <1>3 DEF PieceFrom, PieceTo, Pieces, L
<1>4. CASE i # 1
  <2>1. i - 1 \in 1..Len(L)
    BY <1>1, <1>4 DEF Pieces, L
  <2>2. i = Len(L) + 1 \/ i \in 1..Len(L)
    BY <1>1 DEF Pieces, L
  <2>3. QED
    BY <1>1, <1>2, <1>4, <2>1, <2>2 DEF PieceFrom, PieceTo, Pieces, L
<1>5. QED
  BY <1>3, <1>4

\* After a piece comes an occurrence, and after that the next piece.
LEMMA PieceNext ==
    ASSUME NEW C, NEW s \in Seq(C), NEW t \in Seq(C),
           NEW i \in 1..Pieces(s, t), i # Pieces(s, t)
    PROVE  /\ PieceTo(s, t, i) = SXStringSubCStringLocations(s, t)[i]
           /\ PieceFrom(s, t, i + 1) = PieceTo(s, t, i) + Len(t)
           /\ i + 1 \in 1..Pieces(s, t)
           /\ Part(s, PieceTo(s, t, i), PieceFrom(s, t, i + 1)) = t
<1> DEFINE L == SXStringSubCStringLocations(s, t)
<1>1. Len(L) \in Nat
  BY LocationsSeq
<1> HIDE DEF L
<1>2. i \in 1..Len(L) /\ i # Len(L) + 1 /\ i + 1 \in 1..Len(L) + 1 /\ i + 1 # 1 /\ (i + 1) - 1 = i
  BY <1>1 DEF Pieces, L
<1>3. PieceTo(s, t, i) = L[i] /\ PieceFrom(s, t, i + 1) = L[i] + Len(t)
  BY <1>2 DEF PieceTo, PieceFrom, L
<1>4. Part(s, L[i], L[i] + Len(t)) = t
  BY <1>2, LocationIs DEF L
<1>5. QED
  BY <1>2, <1>3, <1>4 DEF Pieces, L

\* The ranges the code computes are those of the pieces.
LEMMA RangesArePieces ==
    ASSUME NEW C, NEW s \in Seq(C), NEW t \in Seq(C),
           SXStringSubCStringLocations(s, t) # <<>>
    PROVE  /\ DOMAIN TrimRanges(s, t) = 1..Pieces(s, t)
           /\ \A i \in 1..Pieces(s, t) :
                /\ TrimRanges(s, t)[i][1] = PieceFrom(s, t, i)
                /\ TrimRanges(s, t)[i][2] = PieceTo(s, t, i) - PieceFrom(s, t, i)
<1> DEFINE L == SXStringSubCStringLocations(s, t)
           n == Len(L)
           R == TrimRanges(s, t)
<1>1. L \in Seq(Nat) /\ n \in Nat /\ n # 0 /\ Len(s) \in Nat /\ Len(t) \in Nat
  <2>1. L \in Seq(Nat)
    BY LocationsSeq
  <2>2. L # <<>>
    OBVIOUS
  <2> HIDE DEF L
  <2>3. QED
    BY <2>1, <2>2
<1>2. \A j \in 1..n : L[j] \in Nat
  BY <1>1
<1>3. R = [i \in 1..n + 1 |->
            CASE i = 1     -> <<0, L[1]>>
              [] i = n + 1 -> <<Len(s) - (Len(s) - (L[n] + Len(t))), Len(s) - (L[n] + Len(t))>>
              [] OTHER     -> <<L[i - 1] + Len(t), L[i] - L[i - 1] - Len(t)>>]
  BY DEF TrimRanges
<1> HIDE DEF L, n, R
<1>4. ASSUME NEW i \in 1..n + 1
      PROVE  R[i][1] = PieceFrom(s, t, i) /\ R[i][2] = PieceTo(s, t, i) - PieceFrom(s, t, i)
  <2>1. CASE i = 1
    <3>1. R[i] = <<0, L[1]>> /\ i # n + 1 /\ L[1] \in Nat
      <4>1. i # n + 1 /\ 1 \in 1..n
        BY <1>1, <2>1
      <4>2. R[i] = CASE i = 1     -> <<0, L[1]>>
                     [] i = n + 1 -> <<Len(s) - (Len(s) - (L[n] + Len(t))), Len(s) - (L[n] + Len(t))>>
                     [] OTHER     -> <<L[i - 1] + Len(t), L[i] - L[i - 1] - Len(t)>>
        BY <1>3, Zenon
      <4>3. R[i] = <<0, L[1]>>
        BY <2>1, <4>1, <4>2
      <4>4. QED
        BY <1>2, <4>1, <4>3
    <3>2. PieceFrom(s, t, i) = 0 /\ PieceTo(s, t, i) = L[1]
      BY <2>1, <3>1 DEF PieceFrom, PieceTo, L, n
    <3>3. QED
      BY <3>1, <3>2
  <2>2. CASE i = n + 1
    <3>1. /\ i # 1 /\ i - 1 = n /\ L[n] \in Nat
          /\ R[i] = <<Len(s) - (Len(s) - (L[n] + Len(t))), Len(s) - (L[n] + Len(t))>>
      <4>1. i # 1 /\ i - 1 = n /\ n \in 1..n
        BY <1>1, <2>2
      <4>2. R[i] = <<Len(s) - (Len(s) - (L[n] + Len(t))), Len(s) - (L[n] + Len(t))>>
        BY <1>3, <2>2, <4>1
      <4>3. QED
        BY <1>2, <4>1, <4>2
    <3>2. PieceFrom(s, t, i) = L[n] + Len(t) /\ PieceTo(s, t, i) = Len(s)
      BY <2>2, <3>1 DEF PieceFrom, PieceTo, L, n
    <3>3. QED
      BY <1>1, <3>1, <3>2
  <2>3. CASE i # 1 /\ i # n + 1
    <3>1. /\ R[i] = <<L[i - 1] + Len(t), L[i] - L[i - 1] - Len(t)>>
          /\ L[i] \in Nat /\ L[i - 1] \in Nat
      <4>1. i \in 1..n /\ i - 1 \in 1..n
        BY <1>1, <2>3
      <4>2. R[i] = <<L[i - 1] + Len(t), L[i] - L[i - 1] - Len(t)>>
        BY <1>3, <2>3
      <4>3. QED
        BY <1>2, <4>1, <4>2
    <3>2. PieceFrom(s, t, i) = L[i - 1] + Len(t) /\ PieceTo(s, t, i) = L[i]
      BY <2>3 DEF PieceFrom, PieceTo, L, n
    <3>3. QED
      BY <1>1, <3>1, <3>2
  <2>4. QED
    BY <2>1, <2>2, <2>3
<1>5. DOMAIN R = 1..n + 1
  BY <1>3
<1>6. QED
  BY <1>4, <1>5 DEF R, Pieces, n, L

\* An occurrence is found, and no piece ends before it begins.
Cuttable(s, t) ==
    /\ SXStringSubCStringLocations(s, t) # <<>>
    /\ \A i \in 1..Pieces(s, t) : PieceFrom(s, t, i) <= PieceTo(s, t, i)

\* The code stays in its memory exactly when no piece has a negative length.
LEMMA DefinedIsCuttable ==
    ASSUME NEW C, NEW s \in Seq(C), NEW t \in Seq(C)
    PROVE  SXStringSubStringsTrimmedByStringDefined(s, t) <=> Cuttable(s, t)
<1>1. CASE SXStringSubCStringLocations(s, t) = <<>>
  BY <1>1 DEF SXStringSubStringsTrimmedByStringDefined, Cuttable
<1>2. CASE SXStringSubCStringLocations(s, t) # <<>>
  <2>1. DOMAIN TrimRanges(s, t) = 1..Pieces(s, t)
    BY <1>2, RangesArePieces
  <2>2. ASSUME NEW i \in 1..Pieces(s, t)
        PROVE  InRange(s, TrimRanges(s, t)[i][1], TrimRanges(s, t)[i][2])
                 <=> PieceFrom(s, t, i) <= PieceTo(s, t, i)
    <3> DEFINE a == PieceFrom(s, t, i)  b == PieceTo(s, t, i)
    <3>1. TrimRanges(s, t)[i][1] = a /\ TrimRanges(s, t)[i][2] = b - a
      BY <1>2, RangesArePieces
    <3>2. a \in Nat /\ b \in Nat /\ b <= Len(s)
      BY PieceEnds
    <3> HIDE DEF a, b
    <3>3. a >= 0 /\ a + (b - a) = b /\ (b - a >= 0 <=> a <= b)
      BY <3>2
    <3>4. QED
      BY <3>1, <3>2, <3>3 DEF InRange, a, b
  <2>3. QED
    BY <1>2, <2>1, <2>2 DEF SXStringSubStringsTrimmedByStringDefined, Cuttable
<1>3. QED
  BY <1>1, <1>2

\* The set of which the pieces of a string are elements, and that they are parts of it.
LEMMA TrimmedIs ==
    ASSUME NEW C, NEW s \in Seq(C), NEW t \in Seq(C), Cuttable(s, t)
    PROVE  LET pieces == SXStringSubStringsTrimmedByString(s, t)
           IN  /\ pieces \in Seq(Seq(C)) /\ Len(pieces) = Pieces(s, t)
               /\ DOMAIN pieces = 1..Pieces(s, t)
               /\ \A i \in 1..Pieces(s, t) :
                    /\ pieces[i] = Part(s, PieceFrom(s, t, i), PieceTo(s, t, i))
                    /\ pieces[i] \in Seq(C)
                    /\ Len(pieces[i]) = PieceTo(s, t, i) - PieceFrom(s, t, i)
<1> DEFINE pieces == SXStringSubStringsTrimmedByString(s, t)
           N == Pieces(s, t)
<1>1. DOMAIN TrimRanges(s, t) = 1..N
  BY RangesArePieces DEF Cuttable
<1>2. pieces = [i \in 1..N |-> SXStringGetSubstringInRange(s, TrimRanges(s, t)[i][1], TrimRanges(s, t)[i][2])]
  BY <1>1 DEF SXStringSubStringsTrimmedByString
<1> HIDE DEF pieces
<1>3. ASSUME NEW i \in 1..N
      PROVE  /\ pieces[i] = Part(s, PieceFrom(s, t, i), PieceTo(s, t, i))
             /\ pieces[i] \in Seq(C)
             /\ Len(pieces[i]) = PieceTo(s, t, i) - PieceFrom(s, t, i)
  <2> DEFINE a == PieceFrom(s, t, i)  b == PieceTo(s, t, i)
  <2>1. TrimRanges(s, t)[i][1] = a /\ TrimRanges(s, t)[i][2] = b - a
    BY RangesArePieces DEF Cuttable
  <2>2. a \in Nat /\ b \in Nat /\ b <= Len(s) /\ a <= b
    BY PieceEnds DEF Cuttable
  <2> HIDE DEF a, b
  <2>3. pieces[i] = SubSeq(s, a + 1, a + (b - a)) /\ a + (b - a) = b
    BY <1>2, <2>1, <2>2 DEF SXStringGetSubstringInRange
  <2>4. pieces[i] = Part(s, a, b)
    BY <2>3 DEF Part
  <2>5. Part(s, a, b) \in Seq(C) /\ Len(Part(s, a, b)) = b - a
    BY <2>2, PartIs, Zenon
  <2>6. QED
    BY <2>4, <2>5 DEF a, b
<1>4. N \in Nat
  <2>1. Len(SXStringSubCStringLocations(s, t)) \in Nat
    BY LocationsSeq
  <2>2. QED
    BY <2>1 DEF Pieces
<1> HIDE DEF N
<1>5. pieces \in [1..N -> Seq(C)]
  BY <1>2, <1>3
<1>6. pieces \in Seq(Seq(C)) /\ Len(pieces) = N
  BY <1>4, <1>5
<1>7. QED
  BY <1>2, <1>3, <1>6 DEF pieces, N

\* ... and that is when there are occurrences and none overlaps another.
LEMMA CuttableIffApart ==
    ASSUME NEW C, NEW s \in Seq(C), NEW t \in Seq(C)
    PROVE  Cuttable(s, t) <=> Occurrences(s, t) # {} /\ Apart(s, t, Len(t))
<1> DEFINE L == SXStringSubCStringLocations(s, t)
           n == Len(L)
<1>1. Lists(L, Occurrences(s, t)) /\ Len(t) \in Nat
  BY LocationsList
<1>2. L \in Seq(Nat) /\ n \in Nat
  BY LocationsSeq
<1>3. Pieces(s, t) = n + 1
  BY DEF Pieces
<1>4. ASSUME NEW i \in 1..n + 1, i # n + 1
      PROVE  PieceTo(s, t, i) = L[i] /\ PieceFrom(s, t, i + 1) = L[i] + Len(t)
  BY <1>3, <1>4, PieceNext
<1>5. L # <<>> <=> Occurrences(s, t) # {}
  <2> HIDE DEF L
  <2>1. L # <<>> <=> 1 \in 1..Len(L)
    BY <1>2
  <2>2. 1 \in 1..Len(L) => Occurrences(s, t) # {}
    BY <1>1 DEF Lists
  <2>3. Occurrences(s, t) # {} => 1 \in 1..Len(L)
    BY <1>1, <1>2 DEF Lists
  <2>4. QED
    BY <2>1, <2>2, <2>3
<1>6. ASSUME Cuttable(s, t), NEW i \in Occurrences(s, t), NEW j \in Occurrences(s, t), i < j
      PROVE  j - i >= Len(t)
  <2>1. PICK a \in 1..n, b \in 1..n : L[a] = i /\ L[b] = j
    BY <1>1, Zenon DEF Lists
  <2>2. L[a] \in Nat /\ L[b] \in Nat /\ a \in Nat /\ b \in Nat
    BY <1>2, <2>1
  <2>3. a < b
    <3>1. b < a => L[b] < L[a]
      BY <1>1 DEF Lists
    <3>2. QED
      BY <1>6, <2>1, <2>2, <3>1
  <2>4. a + 1 \in 1..n /\ a \in 1..n + 1 /\ a # n + 1 /\ a + 1 \in 1..n + 1 /\ a + 1 # n + 1
    BY <1>2, <2>2, <2>3
  <2>5. L[a] + Len(t) <= L[a + 1]
    <3>1. PieceFrom(s, t, a + 1) = L[a] + Len(t) /\ PieceTo(s, t, a + 1) = L[a + 1]
      BY <1>4, <2>4
    <3>2. PieceFrom(s, t, a + 1) <= PieceTo(s, t, a + 1)
      BY <1>3, <1>6, <2>4 DEF Cuttable
    <3>3. QED
      BY <3>1, <3>2
  <2>6. L[a + 1] <= L[b] /\ L[a + 1] \in Nat
    <3>1. a + 1 < b => L[a + 1] < L[b]
      BY <1>1, <2>4 DEF Lists
    <3>2. L[a + 1] \in Nat
      BY <1>2, <2>4
    <3>3. QED
      BY <2>2, <2>3, <3>1, <3>2
  <2>7. QED
    BY <1>1, <2>1, <2>2, <2>5, <2>6
<1>7. ASSUME Occurrences(s, t) # {}, Apart(s, t, Len(t)), NEW i \in 1..n + 1
      PROVE  PieceFrom(s, t, i) <= PieceTo(s, t, i)
  <2>1. PieceFrom(s, t, i) \in Nat /\ PieceTo(s, t, i) \in Nat /\ PieceFrom(s, t, i) <= Len(s)
    BY <1>3, PieceEnds
  <2>2. CASE i = 1
    BY <2>1, <2>2 DEF PieceFrom
  <2>3. CASE i = n + 1
    BY <2>1, <2>3 DEF PieceTo
  <2>4. CASE i # 1 /\ i # n + 1
    <3>1. i - 1 \in 1..n /\ i \in 1..n /\ i - 1 \in 1..n + 1 /\ i - 1 # n + 1 /\ (i - 1) + 1 = i /\ i - 1 < i
      BY <1>2, <2>4
    <3>2. PieceTo(s, t, i) = L[i]
      BY <1>4, <2>4
    <3>3. PieceFrom(s, t, i) = L[i - 1] + Len(t)
      BY <2>4 DEF PieceFrom
    <3>4. L[i - 1] \in Occurrences(s, t) /\ L[i] \in Occurrences(s, t) /\ L[i - 1] < L[i]
      BY <1>1, <3>1 DEF Lists
    <3>5. L[i] - L[i - 1] >= Len(t)
      BY <1>7, <3>4 DEF Apart
    <3>6. L[i] \in Nat /\ L[i - 1] \in Nat
      BY <1>2, <3>1
    <3> HIDE DEF L
    <3>7. QED
      BY <1>1, <3>2, <3>3, <3>5, <3>6
  <2>5. QED
    BY <2>2, <2>3, <2>4
<1>8. QED
  <2>1. Cuttable(s, t) => Occurrences(s, t) # {} /\ Apart(s, t, Len(t))
    BY <1>5, <1>6 DEF Cuttable, Apart
  <2>2. Occurrences(s, t) # {} /\ Apart(s, t, Len(t)) => Cuttable(s, t)
    BY <1>3, <1>5, <1>7 DEF Cuttable
  <2>3. QED
    BY <2>1, <2>2

-----------------------------------------------------------------------------
(* Joining.                                                                *)

\* What the turns of Joined leave.
Joining(pieces, t) ==
    LET after[k \in 0..Len(pieces) - 1] ==
            IF k = 0 THEN pieces[1] ELSE after[k - 1] \o t \o pieces[k + 1]
    IN  after

\* The loop that joins, turn by turn.
LEMMA JoiningIs ==
    ASSUME NEW C, NEW p \in Seq(Seq(C)), p # <<>>, NEW t \in Seq(C)
    PROVE  /\ Joining(p, t) \in [0..Len(p) - 1 -> Seq(C)] /\ Joining(p, t)[0] = p[1]
           /\ \A k \in 1..Len(p) - 1 : Joining(p, t)[k] = Joining(p, t)[k - 1] \o t \o p[k + 1]
           /\ Joined(p, t) = Joining(p, t)[Len(p) - 1]
<1> DEFINE A == Seq(C)
           n == Len(p) - 1
           a == p[1]
           step(x, k) == x \o t \o p[k + 1]
           G == [k \in 1..n |-> [x \in A |-> step(x, k)]]
           f == Turns(n, a, G)
           g == Joining(p, t)
<1>1. n \in Nat /\ a \in A
  OBVIOUS
<1>2. \A x \in A, k \in 1..n : step(x, k) \in A
  <2>1. \A k \in 1..n : k + 1 \in 1..Len(p)
    OBVIOUS
  <2>2. \A k \in 1..n : p[k + 1] \in A
    BY <2>1, ElementOfSeq
  <2>3. QED
    BY <2>2
<1>3. /\ g = CHOOSE after : after = [k \in 0..n |-> IF k = 0 THEN a ELSE step(after[k - 1], k)]
      /\ Joined(p, t) = g[n]
  BY DEF Joining, Joined, Loop
<1> HIDE DEF A, n, a, step, g
<1>4. G \in [1..n -> [A -> A]]
  BY <1>2
<1>5. \A k \in 1..n, x \in A : G[k][x] = step(x, k)
  OBVIOUS
<1> HIDE DEF G
<1>6. AreTurns(f, n, A, a, G)
  BY <1>1, <1>4, TurnsRun, Zenon
<1> HIDE DEF f
<1>7. ASSUME NEW k \in 1..n PROVE f[k - 1] \in A /\ f[k] = step(f[k - 1], k)
  BY <1>1, <1>5, <1>6 DEF AreTurns
<1>8. f = [k \in 0..n |-> IF k = 0 THEN a ELSE step(f[k - 1], k)]
  BY <1>6, <1>7 DEF AreTurns
<1>9. g = [k \in 0..n |-> IF k = 0 THEN a ELSE step(g[k - 1], k)]
  BY <1>3, <1>8
<1> DEFINE T == {k \in 0..n : g[k] \in A}
<1>10. 0 \in T /\ \A k \in 1..n : k - 1 \in T => k \in T
  BY <1>1, <1>2, <1>9
<1> HIDE DEF T
<1>11. 0..n \subseteq T
  BY <1>1, <1>10, UpTo
<1>12. g \in [0..n -> A] /\ g[0] = a /\ \A k \in 1..n : g[k] = step(g[k - 1], k)
  BY <1>1, <1>9, <1>11 DEF T
<1>13. QED
  BY <1>3, <1>12 DEF A, n, a, step, g

\* The first i pieces of s, joined with r.
Pasted(s, t, r, i) == Joining(SXStringSubStringsTrimmedByString(s, t), r)[i - 1]

\* There is one piece more than there are occurrences.
LEMMA PiecesNumber ==
    ASSUME NEW C, NEW s \in Seq(C), NEW t \in Seq(C)
    PROVE  /\ Pieces(s, t) \in Nat /\ Pieces(s, t) - 1 \in Nat
           /\ 1 \in 1..Pieces(s, t) /\ Pieces(s, t) \in 1..Pieces(s, t)
           /\ Pieces(s, t) - 1 = Len(SXStringSubCStringLocations(s, t))
           /\ Pieces(s, t) = (Pieces(s, t) - 1) + 1
<1>1. Len(SXStringSubCStringLocations(s, t)) \in Nat
  BY LocationsSeq
<1>2. QED
  BY <1>1 DEF Pieces

\* Pasting grows by the new mark and the next piece.
LEMMA PastedIs ==
    ASSUME NEW C, NEW s \in Seq(C), NEW t \in Seq(C), NEW r \in Seq(C), Cuttable(s, t)
    PROVE  /\ \A i \in 1..Pieces(s, t) : Pasted(s, t, r, i) \in Seq(C)
           /\ Pasted(s, t, r, 1) = Part(s, 0, PieceTo(s, t, 1))
           /\ \A i \in 1..Pieces(s, t) : i # Pieces(s, t) =>
                Pasted(s, t, r, i + 1)
                  = Pasted(s, t, r, i) \o r \o Part(s, PieceFrom(s, t, i + 1), PieceTo(s, t, i + 1))
           /\ Joined(SXStringSubStringsTrimmedByString(s, t), r) = Pasted(s, t, r, Pieces(s, t))
<1> DEFINE p == SXStringSubStringsTrimmedByString(s, t)
           N == Pieces(s, t)
           J == Joining(p, r)
<1>1. /\ p \in Seq(Seq(C)) /\ Len(p) = N
      /\ \A i \in 1..N : p[i] = Part(s, PieceFrom(s, t, i), PieceTo(s, t, i))
  BY TrimmedIs
<1>2. N \in Nat /\ N - 1 \in Nat /\ 1 \in 1..N /\ N \in 1..N
  BY PiecesNumber
<1> HIDE DEF p, N
<1>3. p # <<>>
  BY <1>1, <1>2
<1>4. /\ J \in [0..N - 1 -> Seq(C)] /\ J[0] = p[1]
      /\ \A k \in 1..N - 1 : J[k] = J[k - 1] \o r \o p[k + 1]
      /\ Joined(p, r) = J[N - 1]
  <2>1. /\ J \in [0..Len(p) - 1 -> Seq(C)] /\ J[0] = p[1]
        /\ \A k \in 1..Len(p) - 1 : J[k] = J[k - 1] \o r \o p[k + 1]
        /\ Joined(p, r) = J[Len(p) - 1]
    BY <1>1, <1>3, JoiningIs, Zenon
  <2>2. QED
    BY <1>1, <2>1, Zenon
<1> HIDE DEF J
<1>5. \A i : Pasted(s, t, r, i) = J[i - 1]
  BY Zenon DEF Pasted, J, p
<1>6. ASSUME NEW i \in 1..N PROVE Pasted(s, t, r, i) \in Seq(C)
  <2>1. i - 1 \in 0..N - 1
    BY <1>2
  <2>2. J[i - 1] \in Seq(C)
    BY <1>4, <2>1
  <2>3. QED
    BY <1>5, <2>2
<1>7. Pasted(s, t, r, 1) = Part(s, 0, PieceTo(s, t, 1))
  <2>1. PieceFrom(s, t, 1) = 0
    BY DEF PieceFrom
  <2>2. Pasted(s, t, r, 1) = p[1]
    BY <1>4, <1>5
  <2>3. QED
    BY <1>1, <1>2, <2>1, <2>2
<1>8. ASSUME NEW i \in 1..N, i # N
      PROVE  Pasted(s, t, r, i + 1)
               = Pasted(s, t, r, i) \o r \o Part(s, PieceFrom(s, t, i + 1), PieceTo(s, t, i + 1))
  <2>1. i \in 1..N - 1 /\ i + 1 \in 1..N /\ (i + 1) - 1 = i
    BY <1>2, <1>8
  <2>2. J[i] = J[i - 1] \o r \o p[i + 1]
    BY <1>4, <2>1
  <2>3. Pasted(s, t, r, i + 1) = J[i] /\ Pasted(s, t, r, i) = J[i - 1]
    BY <1>5, <2>1
  <2>4. p[i + 1] = Part(s, PieceFrom(s, t, i + 1), PieceTo(s, t, i + 1))
    BY <1>1, <2>1
  <2>5. QED
    BY <2>2, <2>3, <2>4, Zenon
<1>9. Joined(p, r) = Pasted(s, t, r, N)
  BY <1>4, <1>5
<1>10. QED
  BY <1>6, <1>7, <1>8, <1>9, Zenon DEF p, N

\* Joined with what separated them, the first pieces are the string up to their end.
LEMMA PastedWithMark ==
    ASSUME NEW C, NEW s \in Seq(C), NEW t \in Seq(C), Cuttable(s, t), NEW i \in 1..Pieces(s, t)
    PROVE  Pasted(s, t, t, i) = Part(s, 0, PieceTo(s, t, i))
<1> DEFINE N == Pieces(s, t)
           n == N - 1
           S == {k \in 0..n : Pasted(s, t, t, k + 1) = Part(s, 0, PieceTo(s, t, k + 1))}
<1>1. N \in Nat /\ n \in Nat
  BY PiecesNumber
<1>2. 0 \in S
  <2>1. Pasted(s, t, t, 1) = Part(s, 0, PieceTo(s, t, 1))
    BY PastedIs
  <2>2. QED
    BY <1>1, <2>1
<1>3. ASSUME NEW k \in 1..n, k - 1 \in S PROVE k \in S
  <2> DEFINE to == PieceTo(s, t, k)  from == PieceFrom(s, t, k + 1)  end == PieceTo(s, t, k + 1)
  <2>1. k \in 1..N /\ k # N /\ k + 1 \in 1..N /\ (k - 1) + 1 = k /\ k \in 0..n
    BY <1>1
  <2>2. Pasted(s, t, t, k) = Part(s, 0, to)
    BY <1>3, <2>1
  <2>3. Pasted(s, t, t, k + 1) = Pasted(s, t, t, k) \o t \o Part(s, from, end)
    BY <2>1, PastedIs, Zenon
  <2>4. from = to + Len(t) /\ Part(s, to, from) = t
    BY <2>1, PieceNext, Zenon
  <2>5. to \in Nat /\ from \in Nat /\ end \in Nat /\ end <= Len(s) /\ from <= end
    BY <2>1, PieceEnds DEF Cuttable
  <2>6. Len(t) \in Nat /\ 0 \in Nat
    OBVIOUS
  <2> SUFFICES Pasted(s, t, t, k + 1) = Part(s, 0, end)
    BY <2>1
  <2> HIDE DEF to, from, end, N, n
  <2>7. 0 <= to /\ to <= from /\ from <= Len(s)
    BY <2>4, <2>5, <2>6
  <2>8. Part(s, 0, to) \o Part(s, to, from) = Part(s, 0, from)
    BY <2>5, <2>6, <2>7, PartsMeet, Zenon
  <2>9. 0 <= from
    BY <2>5
  <2>10. Part(s, 0, from) \o Part(s, from, end) = Part(s, 0, end)
    BY <2>5, <2>6, <2>9, PartsMeet, Zenon
  <2>11. QED
    BY <2>2, <2>3, <2>4, <2>8, <2>10, Zenon
<1>4. i - 1 \in 0..n /\ (i - 1) + 1 = i
  BY <1>1
<1> HIDE DEF n, S
<1>5. 0..n \subseteq S
  BY <1>1, <1>2, <1>3, UpTo
<1>6. i - 1 \in S
  BY <1>4, <1>5
<1>7. QED
  BY <1>4, <1>6, Zenon DEF S

\* A string occurs where it agrees character by character.
Reads(s, i, t) == i + Len(t) <= Len(s) /\ \A j \in 1..Len(t) : s[i + j] = t[j]

LEMMA MatchReads ==
    ASSUME NEW C, NEW s \in Seq(C), NEW t \in Seq(C), NEW i \in Nat
    PROVE  MatchesAt(s, i, t) <=> Reads(s, i, t)
<1>1. SUFFICES ASSUME i + Len(t) <= Len(s)
               PROVE  Part(s, i, i + Len(t)) = t <=> \A j \in 1..Len(t) : s[i + j] = t[j]
  BY MatchIsPart, Zenon DEF Reads
<1> DEFINE m == Len(t)  p == Part(s, i, i + m)
<1>2. m \in Nat /\ i + m \in Nat /\ i <= i + m /\ (i + m) - i = m
  OBVIOUS
<1>3. p \in Seq(C) /\ Len(p) = (i + m) - i /\ \A j \in 1..(i + m) - i : p[j] = s[i + j]
  BY <1>1, <1>2, PartIs, Zenon
<1> HIDE DEF p
<1>4. p = t => \A j \in 1..m : s[i + j] = t[j]
  BY <1>2, <1>3
<1>5. ASSUME \A j \in 1..m : s[i + j] = t[j] PROVE p = t
  <2>1. Len(p) = Len(t) /\ \A j \in 1..Len(p) : p[j] = t[j]
    BY <1>2, <1>3, <1>5
  <2>2. QED
    BY <1>3, <2>1, SeqEqual, Zenon
<1>6. QED
  BY <1>4, <1>5 DEF p

\* An occurrence that begins in a piece is the one that ends it.
LEMMA OccurrenceEndsPiece ==
    ASSUME NEW C, NEW s \in Seq(C), NEW t \in Seq(C), t # <<>>, NEW i \in 1..Pieces(s, t),
           NEW p \in Nat, PieceFrom(s, t, i) <= p, p <= PieceTo(s, t, i), MatchesAt(s, p, t)
    PROVE  i # Pieces(s, t) /\ p = PieceTo(s, t, i)
<1> DEFINE L == SXStringSubCStringLocations(s, t)
           n == Len(L)
<1>1. Len(t) \in Nat /\ Len(t) > 0 /\ Len(s) \in Nat
  OBVIOUS
<1>2. p \in Occurrences(s, t)
  <2>1. p + Len(t) <= Len(s)
    BY DEF MatchesAt
  <2>2. QED
    BY <1>1, <2>1 DEF Occurrences
<1>3. Lists(L, Occurrences(s, t)) /\ n \in Nat /\ Pieces(s, t) = n + 1
  BY LocationsList, LocationsSeq DEF Pieces
<1> HIDE DEF L
<1>4. \A a \in 1..n : L[a] \in Nat
  BY <1>3 DEF Lists
<1>5. PICK b \in 1..n : L[b] = p
  BY <1>2, <1>3 DEF Lists
<1> HIDE DEF n
<1>6. i \in 1..n + 1
  BY <1>3
<1>7. ASSUME b < i PROVE FALSE
  <2>1. i - 1 \in 1..n /\ i # 1 /\ b <= i - 1
    BY <1>3, <1>6, <1>7
  <2>2. L[b] <= L[i - 1]
    <3>1. b < i - 1 => L[b] < L[i - 1]
      BY <1>3, <2>1 DEF Lists, n
    <3>2. QED
      BY <1>4, <2>1, <3>1
  <2>3. PieceFrom(s, t, i) = L[i - 1] + Len(t)
    BY <2>1 DEF PieceFrom, L
  <2>4. QED
    BY <1>1, <1>4, <1>5, <2>1, <2>2, <2>3
<1>8. i \in 1..n /\ i <= b
  BY <1>3, <1>6, <1>7
<1>9. PieceTo(s, t, i) = L[i]
  BY <1>3, <1>8 DEF PieceTo, L, n
<1>10. i < b => L[i] < L[b]
  BY <1>3, <1>8 DEF Lists, n
<1>11. L[i] = L[b]
  BY <1>4, <1>5, <1>8, <1>9, <1>10
<1>12. QED
  BY <1>3, <1>5, <1>8, <1>9, <1>11

\* ... and so no piece has an occurrence in it.
LEMMA PiecesAreFree ==
    ASSUME NEW C, NEW s \in Seq(C), NEW t \in Seq(C), t # <<>>, Cuttable(s, t),
           NEW i \in 1..Pieces(s, t)
    PROVE  Occurrences(SXStringSubStringsTrimmedByString(s, t)[i], t) = {}
<1> DEFINE a == PieceFrom(s, t, i)  b == PieceTo(s, t, i)
           p == SXStringSubStringsTrimmedByString(s, t)[i]
<1>1. p = Part(s, a, b)
  BY TrimmedIs
<1>2. a \in Nat /\ b \in Nat /\ b <= Len(s) /\ a <= b
  BY PieceEnds DEF Cuttable
<1>3. Len(t) \in Nat /\ Len(t) > 0 /\ Len(s) \in Nat
  OBVIOUS
<1> SUFFICES ASSUME NEW x \in Occurrences(p, t) PROVE FALSE
  OBVIOUS
<1> HIDE DEF p
<1>4. p \in Seq(C) /\ Len(p) = b - a /\ \A k \in 1..b - a : p[k] = s[a + k]
  <2> HIDE DEF a, b
  <2>1. QED
    BY <1>1, <1>2, PartIs, Zenon
<1>5. x \in Nat /\ MatchesAt(p, x, t)
  BY <1>4 DEF Occurrences
<1>6. x + Len(t) <= Len(p) /\ \A j \in 1..Len(t) : p[x + j] = t[j]
  <2>1. p \in Seq(C) /\ x \in Nat
    BY <1>4, <1>5
  <2> HIDE DEF p
  <2>2. MatchesAt(p, x, t) <=> Reads(p, x, t)
    BY <2>1, MatchReads, Zenon
  <2>3. QED
    BY <1>5, <2>2, Zenon DEF Reads
<1>7. a + x \in Nat
  BY <1>2, <1>5
<1>8. MatchesAt(s, a + x, t)
  <2> HIDE DEF a, b
  <2>1. a + x + Len(t) <= Len(s)
    BY <1>2, <1>3, <1>4, <1>5, <1>6
  <2>2. ASSUME NEW j \in 1..Len(t) PROVE s[(a + x) + j] = t[j]
    <3>1. x + j \in 1..b - a /\ a + (x + j) = (a + x) + j
      BY <1>2, <1>3, <1>4, <1>5, <1>6
    <3>2. p[x + j] = s[a + (x + j)]
      BY <1>4, <3>1
    <3>3. QED
      BY <1>6, <3>1, <3>2
  <2>3. QED
    <3>1. MatchesAt(s, a + x, t) <=> Reads(s, a + x, t)
      BY <1>7, MatchReads, Zenon
    <3>2. Reads(s, a + x, t)
      BY <2>1, <2>2 DEF Reads
    <3>3. QED
      BY <3>1, <3>2, Zenon
<1>9. a <= a + x /\ a + x <= b /\ a + x # b
  BY <1>2, <1>3, <1>4, <1>5, <1>6
<1>10. QED
  BY <1>7, <1>8, <1>9, OccurrenceEndsPiece, Zenon

\* What SplitSound says, of one string and one mark (SXString.c:92-119).
LEMMA SplitIsSound ==
    ASSUME NEW C, NEW s \in Seq(C), NEW t \in Seq(C), t # <<>>
    PROVE  /\ SXStringSubStringsTrimmedByStringDefined(s, t)
                <=> Occurrences(s, t) # {} /\ Apart(s, t, Len(t))
           /\ SXStringSubStringsTrimmedByStringDefined(s, t) =>
                LET pieces == SXStringSubStringsTrimmedByString(s, t)
                IN  /\ Joined(pieces, t) = s
                    /\ \A i \in DOMAIN pieces : Occurrences(pieces[i], t) = {}
<1> DEFINE p == SXStringSubStringsTrimmedByString(s, t)
           N == Pieces(s, t)
<1>1. SXStringSubStringsTrimmedByStringDefined(s, t) <=> Cuttable(s, t)
  BY DefinedIsCuttable
<1>2. Cuttable(s, t) <=> Occurrences(s, t) # {} /\ Apart(s, t, Len(t))
  BY CuttableIffApart
<1>3. ASSUME Cuttable(s, t)
      PROVE  Joined(p, t) = s /\ \A i \in DOMAIN p : Occurrences(p[i], t) = {}
  <2>1. N \in 1..N /\ N = (N - 1) + 1 /\ N - 1 = Len(SXStringSubCStringLocations(s, t))
    BY PiecesNumber
  <2>2. Joined(p, t) = Pasted(s, t, t, N)
    BY <1>3, PastedIs
  <2>3. Pasted(s, t, t, N) = Part(s, 0, PieceTo(s, t, N))
    BY <1>3, <2>1, PastedWithMark
  <2>4. PieceTo(s, t, N) = Len(s)
    BY <2>1 DEF PieceTo
  <2>5. Part(s, 0, Len(s)) = s
    BY PartAll
  <2>6. DOMAIN p = 1..N
    BY <1>3, TrimmedIs
  <2>7. QED
    BY <1>3, <2>2, <2>3, <2>4, <2>5, <2>6, PiecesAreFree
<1>4. QED
  BY <1>1, <1>2, <1>3

\* A product with one more.
LEMMA OneMoreTime == ASSUME NEW d \in Int, NEW k \in Int PROVE d * k = d * (k - 1) + d /\ d * k \in Int
  OBVIOUS

\* Each mark replaced so far has changed the length by the same amount.
LEMMA PastedLength ==
    ASSUME NEW C, NEW s \in Seq(C), NEW t \in Seq(C), NEW r \in Seq(C), Cuttable(s, t),
           NEW i \in 1..Pieces(s, t)
    PROVE  Len(Pasted(s, t, r, i)) = PieceTo(s, t, i) + (Len(r) - Len(t)) * (i - 1)
<1> DEFINE N == Pieces(s, t)
           n == N - 1
           d == Len(r) - Len(t)
           S == {k \in 0..n : Len(Pasted(s, t, r, k + 1)) = PieceTo(s, t, k + 1) + d * k}
<1>1. N \in Nat /\ n \in Nat
  BY PiecesNumber
<1>2. d \in Int /\ Len(r) \in Nat /\ Len(t) \in Nat
  OBVIOUS
<1> HIDE DEF d
<1>3. \A j \in 1..N : PieceFrom(s, t, j) \in Nat /\ PieceTo(s, t, j) \in Nat
  BY PieceEnds
<1>4. \A j \in 1..N : PieceFrom(s, t, j) <= PieceTo(s, t, j) /\ PieceTo(s, t, j) <= Len(s)
  BY PieceEnds DEF Cuttable
<1>5. 0 \in S
  <2> DEFINE to == PieceTo(s, t, 1)
  <2>1. Pasted(s, t, r, 1) = Part(s, 0, to)
    BY PastedIs
  <2>2. to \in Nat /\ to <= Len(s) /\ 0 \in Nat /\ 0 <= to
    <3>1. 1 \in 1..N
      BY <1>1
    <3>2. QED
      BY <1>3, <1>4, <3>1
  <2> HIDE DEF to
  <2>3. Len(Part(s, 0, to)) = to - 0
    BY <2>2, PartIs, Zenon
  <2>4. d * 0 = 0
    BY <1>2
  <2>5. Len(Pasted(s, t, r, 1)) = to + d * 0
    BY <2>1, <2>2, <2>3, <2>4
  <2>6. QED
    BY <1>1, <2>5 DEF to
<1>6. ASSUME NEW k \in 1..n, k - 1 \in S PROVE k \in S
  <2> DEFINE to == PieceTo(s, t, k)  from == PieceFrom(s, t, k + 1)  end == PieceTo(s, t, k + 1)
             u == Pasted(s, t, r, k)  v == Part(s, from, end)  w == Pasted(s, t, r, k + 1)
  <2>1. k \in 1..N /\ k # N /\ k + 1 \in 1..N /\ (k - 1) + 1 = k /\ k \in 0..n /\ k \in Int
    BY <1>1
  <2>2. Len(u) = to + d * (k - 1)
    BY <1>6, <2>1
  <2>3. w = u \o r \o v
    BY <2>1, PastedIs, Zenon
  <2>4. from = to + Len(t)
    BY <2>1, PieceNext, Zenon
  <2>5. to \in Nat /\ from \in Nat /\ end \in Nat /\ end <= Len(s) /\ from <= end
    BY <1>3, <1>4, <2>1
  <2>6. u \in Seq(C)
    BY <2>1, PastedIs, Zenon
  <2> SUFFICES Len(w) = end + d * k
    BY <2>1
  <2>7. d * k = d * (k - 1) + d /\ d * (k - 1) \in Int
    BY <1>2, <2>1, OneMoreTime
  <2> HIDE DEF to, from, end, u, v, w
  <2>8. v \in Seq(C) /\ Len(v) = end - from
    BY <2>5, PartIs, Zenon DEF v
  <2>9. Len(w) = Len(u) + Len(r) + Len(v)
    BY <2>3, <2>6, <2>8
  <2>10. QED
    BY <1>2, <2>2, <2>4, <2>5, <2>7, <2>8, <2>9 DEF d
<1>7. i - 1 \in 0..n /\ (i - 1) + 1 = i
  BY <1>1
<1> HIDE DEF n, S
<1>8. 0..n \subseteq S
  BY <1>1, <1>5, <1>6, UpTo
<1>9. i - 1 \in S
  BY <1>7, <1>8
<1>10. QED
  BY <1>7, <1>9, Zenon DEF S, d

\* It does not matter which of three strings are joined first; of four, likewise.
Regroup(u, v, w) == (u \o v) \o w = u \o (v \o w)

\* Concatenation is associative.
LEMMA Regrouping ==
    ASSUME NEW C, NEW u \in Seq(C), NEW v \in Seq(C), NEW w \in Seq(C)
    PROVE  Regroup(u, v, w)
  BY ConcatAssociative DEF Regroup

RegroupFour(C, u, v, w, x) ==
    v \o w \o x \in Seq(C) /\ (u \o v \o w) \o x = u \o (v \o w \o x)

\* ... with four strings, as the proofs below need it.
LEMMA RegroupingFour ==
    ASSUME NEW C, NEW u \in Seq(C), NEW v \in Seq(C), NEW w \in Seq(C), NEW x \in Seq(C)
    PROVE  RegroupFour(C, u, v, w, x)
<1> DEFINE y == v \o w
<1>1. y \in Seq(C) /\ y \o x \in Seq(C)
  OBVIOUS
<1>2. Regroup(u, v, w)
  BY Regrouping, Zenon
<1> HIDE DEF y
<1>3. Regroup(u, y, x)
  BY <1>1, Regrouping, Zenon
<1>4. QED
  BY <1>1, <1>2, <1>3, Zenon DEF y, Regroup, RegroupFour

\* What is pasted so far is the beginning of the whole.
LEMMA PastedBegins ==
    ASSUME NEW C, NEW s \in Seq(C), NEW t \in Seq(C), NEW r \in Seq(C), Cuttable(s, t),
           NEW i \in 1..Pieces(s, t)
    PROVE  \E u \in Seq(C) : Pasted(s, t, r, Pieces(s, t)) = Pasted(s, t, r, i) \o u
<1> DEFINE N == Pieces(s, t)
           n == N - 1
           all == Pasted(s, t, r, N)
           Begins(j) == \E u \in Seq(C) : all = Pasted(s, t, r, j) \o u
           S == {k \in 0..n : Begins(N - k)}
<1>1. N \in Nat /\ n \in Nat
  BY PiecesNumber
<1>2. \A j \in 1..N : Pasted(s, t, r, j) \in Seq(C)
  BY PastedIs
<1>3. 0 \in S
  <2>1. N \in 1..N /\ N - 0 = N
    BY <1>1, PiecesNumber
  <2>2. all \in Seq(C)
    BY <1>2, <2>1
  <2>3. all = all \o <<>> /\ <<>> \in Seq(C)
    BY <2>2
  <2>4. Begins(N)
    BY <2>3
  <2> HIDE DEF Begins
  <2>5. Begins(N - 0) /\ 0 \in 0..n
    BY <1>1, <2>1, <2>4
  <2>6. QED
    BY <2>5
<1>4. ASSUME NEW k \in 1..n, k - 1 \in S PROVE k \in S
  <2> DEFINE j == N - k
             v == Part(s, PieceFrom(s, t, j + 1), PieceTo(s, t, j + 1))
  <2>1. j \in 1..N /\ j # N /\ N - (k - 1) = j + 1 /\ k \in 0..n /\ j + 1 \in 1..N
    BY <1>1
  <2>2. PICK u \in Seq(C) : all = Pasted(s, t, r, j + 1) \o u
    BY <1>4, <2>1
  <2> HIDE DEF j
  <2>3. Pasted(s, t, r, j + 1) = Pasted(s, t, r, j) \o r \o v
    BY <2>1, PastedIs, Zenon
  <2>4. v \in Seq(C)
    <3>1. PieceFrom(s, t, j + 1) \in Nat /\ PieceTo(s, t, j + 1) \in Nat /\ PieceTo(s, t, j + 1) <= Len(s)
      BY <2>1, PieceEnds
    <3>2. PieceFrom(s, t, j + 1) <= PieceTo(s, t, j + 1)
      BY <2>1 DEF Cuttable
    <3>3. QED
      BY <3>1, <3>2, PartIs, Zenon
  <2>5. Pasted(s, t, r, j) \in Seq(C)
    BY <1>2, <2>1
  <2> HIDE DEF v
  <2>6. r \o v \o u \in Seq(C) /\ (Pasted(s, t, r, j) \o r \o v) \o u = Pasted(s, t, r, j) \o (r \o v \o u)
    <3>1. RegroupFour(C, Pasted(s, t, r, j), r, v, u)
      BY <2>4, <2>5, RegroupingFour, Zenon
    <3>2. QED
      BY <3>1, Zenon DEF RegroupFour
  <2>7. Begins(j)
    BY <2>2, <2>3, <2>6
  <2>8. QED
    BY <2>1, <2>7 DEF j
<1>5. N - i \in 0..n /\ N - (N - i) = i
  BY <1>1
<1> HIDE DEF n, S, Begins
<1>6. 0..n \subseteq S
  BY <1>1, <1>3, <1>4, UpTo
<1>7. Begins(N - (N - i))
  BY <1>5, <1>6 DEF S
<1>8. Begins(i)
  BY <1>5, <1>7, Zenon
<1>9. QED
  BY <1>8 DEF Begins

-----------------------------------------------------------------------------
(* Replacing.                                                              *)

Positions(C) == [pos : Nat, n : Nat, buf : Seq(C)]

ReplaceTurn(s, t, r, st) ==
    IF Len(st.buf) < ReplacedLength(s, t, r) /\ st.pos < Len(s)
    THEN ReplaceStep(s, t, r, SXStringSubCStringLocations(s, t), {}, st) ELSE st

\* What the turns of SXStringReplacingOccurrencesOfString leave.
Replacing(s, t, r) ==
    LET after[k \in 0..Len(s) + Len(SXStringSubCStringLocations(s, t))] ==
            IF k = 0 THEN [pos |-> 0, n |-> 0, buf |-> <<>>] ELSE ReplaceTurn(s, t, r, after[k - 1])
    IN  after

\* A turn of the replacing loop keeps the types of its state.
LEMMA ReplaceTurnType ==
    ASSUME NEW C, NEW s \in Seq(C), NEW t \in Seq(C), NEW r \in Seq(C), NEW st \in Positions(C)
    PROVE  ReplaceTurn(s, t, r, st) \in Positions(C)
<1> DEFINE L == SXStringSubCStringLocations(s, t)
<1>1. st.pos \in Nat /\ st.n \in Nat /\ st.buf \in Seq(C)
  BY DEF Positions
<1>2. ASSUME st.pos < Len(s) PROVE ReplaceStep(s, t, r, L, {}, st) \in Positions(C)
  <2> HIDE DEF L
  <2>1. [pos |-> st.pos + Len(t), n |-> st.n + 1, buf |-> st.buf \o r] \in Positions(C)
    BY <1>1 DEF Positions
  <2>2. s[st.pos + 1] \in C
    <3>1. st.pos + 1 \in 1..Len(s)
      BY <1>1, <1>2
    <3>2. QED
      BY <3>1
  <2>3. Append(st.buf, s[st.pos + 1]) \in Seq(C)
    BY <1>1, <2>2
  <2>4. [st EXCEPT !.pos = @ + 1, !.buf = Append(@, s[st.pos + 1])] \in Positions(C)
    <3> DEFINE b == Append(st.buf, s[st.pos + 1])
    <3>1. b \in Seq(C) /\ st.pos + 1 \in Nat
      BY <1>1, <2>3
    <3> HIDE DEF b
    <3>2. [st EXCEPT !.pos = st.pos + 1, !.buf = b] \in Positions(C)
      BY <3>1 DEF Positions
    <3>3. QED
      BY <3>2 DEF b
  <2>5. QED
    BY <2>1, <2>4, Zenon DEF ReplaceStep
<1>3. QED
  BY <1>2, Zenon DEF ReplaceTurn

\* The replacing loop, turn by turn (SXString.c:142-155).
LEMMA ReplacingIs ==
    ASSUME NEW C, NEW s \in Seq(C), NEW t \in Seq(C), NEW r \in Seq(C)
    PROVE  LET n == Len(s) + Len(SXStringSubCStringLocations(s, t))
               f == Replacing(s, t, r)
           IN  /\ n \in Nat /\ f \in [0..n -> Positions(C)]
               /\ f[0] = [pos |-> 0, n |-> 0, buf |-> <<>>]
               /\ \A k \in 1..n : f[k] = ReplaceTurn(s, t, r, f[k - 1])
               /\ SXStringReplacingOccurrencesOfString(s, t, r, {}) = f[n].buf
<1> DEFINE A == Positions(C)
           n == Len(s) + Len(SXStringSubCStringLocations(s, t))
           a == [pos |-> 0, n |-> 0, buf |-> <<>>]
           step(x, k) == ReplaceTurn(s, t, r, x)
           G == [k \in 1..n |-> [x \in A |-> step(x, k)]]
           f == Turns(n, a, G)
           g == Replacing(s, t, r)
<1>1. n \in Nat /\ a \in A
  <2>1. n \in Nat
    BY LocationsSeq
  <2>2. a \in A
    BY DEF Positions
  <2>3. QED
    BY <2>1, <2>2
<1>2. \A x \in A, k \in 1..n : step(x, k) \in A
  BY ReplaceTurnType
<1>3. /\ g = CHOOSE after : after = [k \in 0..n |-> IF k = 0 THEN a ELSE step(after[k - 1], k)]
      /\ SXStringReplacingOccurrencesOfString(s, t, r, {}) = g[n].buf
  BY DEF Replacing, SXStringReplacingOccurrencesOfString, Loop, ReplaceTurn
<1> HIDE DEF A, n, a, step, g
<1>4. G \in [1..n -> [A -> A]]
  BY <1>2
<1>5. \A k \in 1..n, x \in A : G[k][x] = step(x, k)
  OBVIOUS
<1> HIDE DEF G
<1>6. AreTurns(f, n, A, a, G)
  BY <1>1, <1>4, TurnsRun, Zenon
<1> HIDE DEF f
<1>7. ASSUME NEW k \in 1..n PROVE f[k - 1] \in A /\ f[k] = step(f[k - 1], k)
  BY <1>1, <1>5, <1>6 DEF AreTurns
<1>8. f = [k \in 0..n |-> IF k = 0 THEN a ELSE step(f[k - 1], k)]
  BY <1>6, <1>7 DEF AreTurns
<1>9. g = [k \in 0..n |-> IF k = 0 THEN a ELSE step(g[k - 1], k)]
  BY <1>3, <1>8
<1> DEFINE T == {k \in 0..n : g[k] \in A}
<1>10. 0 \in T /\ \A k \in 1..n : k - 1 \in T => k \in T
  BY <1>1, <1>2, <1>9
<1> HIDE DEF T
<1>11. 0..n \subseteq T
  BY <1>1, <1>10, UpTo
<1>12. g \in [0..n -> A] /\ g[0] = a /\ \A k \in 1..n : g[k] = step(g[k - 1], k)
  BY <1>1, <1>9, <1>11 DEF T
<1>13. QED
  BY <1>1, <1>3, <1>12 DEF A, n, a, step, g

\* The loop has no more turn to take.
Filled(s, t, r, st) == ~(Len(st.buf) < ReplacedLength(s, t, r) /\ st.pos < Len(s))

\* Up to the end of the piece it is in, buf will be that many pieces and replacements.
Tracks(s, t, r, st) ==
    /\ st.n + 1 \in 1..Pieces(s, t)
    /\ PieceFrom(s, t, st.n + 1) <= st.pos /\ st.pos <= PieceTo(s, t, st.n + 1)
    /\ st.buf \o Part(s, st.pos, PieceTo(s, t, st.n + 1)) = Pasted(s, t, r, st.n + 1)

\* A turn at an occurrence.
LEMMA TurnReplaces ==
    ASSUME NEW C, NEW s \in Seq(C), NEW t \in Seq(C), NEW r \in Seq(C), Cuttable(s, t),
           NEW st \in Positions(C), Tracks(s, t, r, st),
           st.n + 1 # Pieces(s, t), st.pos = PieceTo(s, t, st.n + 1)
    PROVE  Tracks(s, t, r, [pos |-> st.pos + Len(t), n |-> st.n + 1, buf |-> st.buf \o r])
<1> DEFINE i == st.n + 1
           to == PieceTo(s, t, i)  from == PieceFrom(s, t, i + 1)  end == PieceTo(s, t, i + 1)
           v == Part(s, from, end)
           w == [pos |-> st.pos + Len(t), n |-> i, buf |-> st.buf \o r]
<1>1. st.pos \in Nat /\ st.n \in Nat /\ st.buf \in Seq(C)
  BY DEF Positions
<1>2. i \in 1..Pieces(s, t) /\ i # Pieces(s, t)
  BY DEF Tracks
<1>3. from = to + Len(t) /\ i + 1 \in 1..Pieces(s, t)
  BY <1>2, PieceNext, Zenon
<1>4. from <= end /\ from \in Nat /\ end \in Nat /\ end <= Len(s)
  BY <1>3, PieceEnds DEF Cuttable
<1>5. st.buf \o Part(s, to, to) = Pasted(s, t, r, i)
  BY DEF Tracks
<1>6. Part(s, to, to) = <<>>
  BY <1>1, PartNone
<1>7. st.buf = Pasted(s, t, r, i)
  <2>1. st.buf \o <<>> = st.buf
    BY <1>1, ConcatEmptySeq
  <2>2. QED
    BY <1>5, <1>6, <2>1, Zenon
<1>8. Pasted(s, t, r, i + 1) = Pasted(s, t, r, i) \o r \o v
  BY <1>2, PastedIs, Zenon
<1>9. w.n = i /\ w.pos = to + Len(t) /\ w.buf = st.buf \o r
  OBVIOUS
<1> SUFFICES Tracks(s, t, r, w)
  OBVIOUS
<1> HIDE DEF i, to, from, end, v, w
<1>10. w.pos = from /\ w.buf \o v = Pasted(s, t, r, i + 1)
  BY <1>3, <1>7, <1>8, <1>9, Zenon
<1>11. w.n + 1 \in 1..Pieces(s, t) /\ from <= w.pos /\ w.pos <= end
  BY <1>3, <1>4, <1>9, <1>10
<1>12. w.buf \o Part(s, w.pos, end) = Pasted(s, t, r, w.n + 1)
  BY <1>9, <1>10, Zenon DEF v
<1>13. QED
  BY <1>9, <1>11, <1>12, Zenon DEF Tracks, from, end

\* A turn elsewhere.
LEMMA TurnCopies ==
    ASSUME NEW C, NEW s \in Seq(C), NEW t \in Seq(C), NEW r \in Seq(C), Cuttable(s, t),
           NEW st \in Positions(C), Tracks(s, t, r, st), st.pos # PieceTo(s, t, st.n + 1)
    PROVE  Tracks(s, t, r, [st EXCEPT !.pos = @ + 1, !.buf = Append(@, s[st.pos + 1])])
<1> DEFINE i == st.n + 1
           to == PieceTo(s, t, i)
           x == s[st.pos + 1]
           u == Part(s, st.pos + 1, to)
           b == Append(st.buf, x)
           w == [st EXCEPT !.pos = st.pos + 1, !.buf = b]
<1>1. st.pos \in Nat /\ st.n \in Nat /\ st.buf \in Seq(C)
  BY DEF Positions
<1>2. i \in 1..Pieces(s, t) /\ PieceFrom(s, t, i) <= st.pos /\ st.pos <= to
  BY DEF Tracks
<1>3. to \in Nat /\ to <= Len(s) /\ PieceFrom(s, t, i) \in Nat
  BY <1>2, PieceEnds
<1>4. st.pos < to
  BY <1>1, <1>2, <1>3
<1>5. st.buf \o Part(s, st.pos, to) = Pasted(s, t, r, i)
  BY DEF Tracks
<1>6. w.n + 1 = i /\ w.pos = st.pos + 1 /\ w.buf = b
  <2> HIDE DEF b
  <2>1. QED
    BY DEF Positions
<1>7. x \in C
  <2>1. st.pos + 1 \in 1..Len(s)
    BY <1>1, <1>3, <1>4
  <2>2. QED
    BY <2>1
<1> SUFFICES Tracks(s, t, r, w)
  OBVIOUS
<1> HIDE DEF i, to
<1>8. Part(s, st.pos, st.pos + 1) = <<x>>
  <2>1. st.pos < Len(s)
    BY <1>1, <1>3, <1>4
  <2>2. QED
    BY <1>1, <2>1, PartOne
<1>9. <<x>> \o u = Part(s, st.pos, to) /\ u \in Seq(C)
  <2>1. st.pos + 1 \in Nat /\ st.pos <= st.pos + 1 /\ st.pos + 1 <= to
    BY <1>1, <1>3, <1>4
  <2>2. Part(s, st.pos, st.pos + 1) \o Part(s, st.pos + 1, to) = Part(s, st.pos, to)
    BY <1>1, <1>3, <2>1, PartsMeet
  <2>3. Part(s, st.pos + 1, to) \in Seq(C)
    BY <1>3, <2>1, PartIs, Zenon
  <2>4. QED
    BY <1>8, <2>2, <2>3
<1>10. <<x>> \in Seq(C) /\ b = st.buf \o <<x>>
  <2> HIDE DEF x
  <2>1. <<x>> \in Seq(C)
    BY <1>7
  <2>2. b = st.buf \o <<x>>
    BY <1>1, <1>7, AppendIsConcat
  <2>3. QED
    BY <2>1, <2>2
<1> HIDE DEF x, u, b, w
<1>11. Regroup(st.buf, <<x>>, u)
  BY <1>1, <1>9, <1>10, Regrouping, Zenon
<1>12. b \o u = Pasted(s, t, r, i)
  BY <1>5, <1>9, <1>10, <1>11, Zenon DEF Regroup
<1>13. w.pos <= to /\ PieceFrom(s, t, i) <= w.pos
  BY <1>1, <1>2, <1>3, <1>4, <1>6
<1>14. QED
  BY <1>2, <1>6, <1>12, <1>13, Zenon DEF Tracks, u, to

\* A turn keeps the loop on its track and moves it, until everything is filled.
LEMMA TurnTracks ==
    ASSUME NEW C, NEW s \in Seq(C), NEW t \in Seq(C), NEW r \in Seq(C), Cuttable(s, t), t # <<>>,
           NEW st \in Positions(C), Tracks(s, t, r, st)
    PROVE  /\ Tracks(s, t, r, ReplaceTurn(s, t, r, st))
           /\ Filled(s, t, r, st) => ReplaceTurn(s, t, r, st) = st
           /\ ~Filled(s, t, r, st) => ReplaceTurn(s, t, r, st).pos >= st.pos + 1
<1> DEFINE L == SXStringSubCStringLocations(s, t)
           i == st.n + 1
           N == Pieces(s, t)
           there == [pos |-> st.pos + Len(t), n |-> st.n + 1, buf |-> st.buf \o r]
           on == [st EXCEPT !.pos = @ + 1, !.buf = Append(@, s[st.pos + 1])]
           At == (st.n < Len(L) /\ st.pos = L[st.n + 1]) \/ (st.n >= Len(L) /\ st.pos \in {})
<1>1. CASE Filled(s, t, r, st)
  BY <1>1 DEF Filled, ReplaceTurn
<1>2. CASE ~Filled(s, t, r, st)
  <2>1. st.pos \in Nat /\ st.n \in Nat /\ st.pos < Len(s)
    BY <1>2 DEF Positions, Filled
  <2>2. i \in 1..N /\ N - 1 = Len(L) /\ N \in Nat
    BY PiecesNumber DEF Tracks
  <2>3. ReplaceTurn(s, t, r, st) = IF At THEN there ELSE on
    BY <1>2, Zenon DEF Filled, ReplaceTurn, ReplaceStep
  <2>4. Len(t) \in Nat /\ Len(t) > 0
    OBVIOUS
  <2>5. there.pos >= st.pos + 1
    BY <2>1, <2>4
  <2>6. on.pos = st.pos + 1
    BY DEF Positions
  <2>7. CASE i # N
    <3>1. PieceTo(s, t, i) = L[i]
      BY <2>2, <2>7 DEF PieceTo
    <3> HIDE DEF L, there, on
    <3>2. At <=> st.pos = PieceTo(s, t, i)
      BY <2>1, <2>2, <2>7, <3>1
    <3> HIDE DEF At
    <3>3. CASE At
      <4>1. Tracks(s, t, r, there)
        BY <2>7, <3>2, <3>3, TurnReplaces, Zenon DEF there
      <4>2. QED
        BY <1>2, <2>3, <2>5, <3>3, <4>1
    <3>4. CASE ~At
      <4>1. st.pos # PieceTo(s, t, st.n + 1)
        BY <3>2, <3>4
      <4>2. Tracks(s, t, r, on)
        BY <4>1, TurnCopies, Zenon DEF on
      <4>3. QED
        BY <1>2, <2>1, <2>3, <2>6, <3>4, <4>2
    <3>5. QED
      BY <3>3, <3>4
  <2>8. CASE i = N
    <3>1. PieceTo(s, t, i) = Len(s)
      BY <2>2, <2>8 DEF PieceTo
    <3> HIDE DEF L, there, on
    <3>2. ~At
      BY <2>1, <2>2, <2>8
    <3> HIDE DEF At
    <3>3. st.pos # PieceTo(s, t, st.n + 1)
      BY <2>1, <3>1
    <3>4. Tracks(s, t, r, on)
      BY <3>3, TurnCopies, Zenon DEF on
    <3>5. QED
      BY <1>2, <2>1, <2>3, <2>6, <3>2, <3>4
  <2>9. QED
    BY <2>7, <2>8
<1>3. QED
  BY <1>1, <1>2

\* The length counted ahead is that of the result (SXString.c:138-142).
LEMMA LengthAhead ==
    ASSUME NEW C, NEW s \in Seq(C), NEW t \in Seq(C), NEW r \in Seq(C), Cuttable(s, t)
    PROVE  ReplacedLength(s, t, r) = Len(Pasted(s, t, r, Pieces(s, t)))
<1> DEFINE N == Pieces(s, t)
<1>1. N \in 1..N /\ N - 1 = Len(SXStringSubCStringLocations(s, t)) /\ N = (N - 1) + 1
  BY PiecesNumber
<1>2. PieceTo(s, t, N) = Len(s)
  BY <1>1 DEF PieceTo
<1>3. Len(Pasted(s, t, r, N)) = PieceTo(s, t, N) + (Len(r) - Len(t)) * (N - 1)
  BY <1>1, PastedLength
<1>4. QED
  BY <1>1, <1>2, <1>3, Zenon DEF ReplacedLength

\* What has been filled is what there was to fill.
LEMMA FilledIsWhole ==
    ASSUME NEW C, NEW s \in Seq(C), NEW t \in Seq(C), NEW r \in Seq(C), Cuttable(s, t), t # <<>>,
           NEW st \in Positions(C), Tracks(s, t, r, st), Filled(s, t, r, st)
    PROVE  st.buf = Pasted(s, t, r, Pieces(s, t))
<1> DEFINE i == st.n + 1
           N == Pieces(s, t)
           to == PieceTo(s, t, i)
           rest == Part(s, st.pos, to)
           all == Pasted(s, t, r, N)
<1>1. st.pos \in Nat /\ st.n \in Nat /\ st.buf \in Seq(C)
  BY DEF Positions
<1>2. i \in 1..N /\ N \in Nat /\ st.pos <= to /\ st.buf \o rest = Pasted(s, t, r, i)
  BY PiecesNumber DEF Tracks
<1>3. to \in Nat /\ to <= Len(s)
  BY <1>2, PieceEnds
<1>4. rest \in Seq(C)
  <2> HIDE DEF to
  <2>1. QED
    BY <1>1, <1>2, <1>3, PartIs
<1>5. CASE st.pos >= Len(s)
  <2>1. st.pos = to /\ to = Len(s)
    BY <1>1, <1>2, <1>3, <1>5
  <2>2. i = N
    <3>1. i # N => i \in 1..Len(SXStringSubCStringLocations(s, t))
      <4>1. N - 1 = Len(SXStringSubCStringLocations(s, t))
        BY PiecesNumber
      <4> HIDE DEF N, i
      <4>2. QED
        BY <1>2, <4>1
    <3>2. i # N => to = SXStringSubCStringLocations(s, t)[i]
      BY <1>2, PieceNext
    <3>3. i # N => to < Len(s)
      BY <3>1, <3>2, LocationIs
    <3>4. QED
      BY <1>3, <2>1, <3>3
  <2>3. rest = <<>>
    BY <1>3, <2>1, PartNone
  <2>4. st.buf \o <<>> = st.buf
    BY <1>1, ConcatEmptySeq
  <2>5. QED
    BY <1>2, <2>2, <2>3, <2>4, Zenon
<1>6. CASE Len(st.buf) >= ReplacedLength(s, t, r)
  <2>1. PICK u \in Seq(C) : all = Pasted(s, t, r, i) \o u
    BY <1>2, PastedBegins
  <2>2. Len(all) <= Len(st.buf)
    BY <1>6, LengthAhead
  <2> HIDE DEF rest, all
  <2>3. Regroup(st.buf, rest, u)
    BY <1>1, <1>4, <2>1, Regrouping, Zenon
  <2>4. all = st.buf \o (rest \o u) /\ rest \o u \in Seq(C)
    <3>1. rest \o u \in Seq(C)
      BY <1>4, <2>1
    <3>2. all = (st.buf \o rest) \o u
      BY <1>2, <2>1, Zenon
    <3>3. QED
      BY <2>3, <3>1, <3>2, Zenon DEF Regroup
  <2> DEFINE v == rest \o u
  <2>5. v \in Seq(C) /\ all = st.buf \o v
    BY <2>4
  <2> HIDE DEF v
  <2>6. Len(all) = Len(st.buf) + Len(v) /\ Len(v) \in Nat /\ Len(st.buf) \in Nat
    BY <1>1, <2>5
  <2>7. Len(v) = 0
    BY <2>2, <2>6
  <2>8. v = <<>>
    BY <2>5, <2>7
  <2>9. st.buf \o <<>> = st.buf
    BY <1>1, ConcatEmptySeq
  <2>10. all = st.buf
    BY <2>5, <2>8, <2>9, Zenon
  <2>11. QED
    BY <2>10 DEF all
<1>7. ReplacedLength(s, t, r) \in Int /\ Len(st.buf) \in Nat /\ Len(s) \in Nat
  <2>1. N \in 1..N
    BY PiecesNumber
  <2>2. all \in Seq(C)
    BY <2>1, PastedIs
  <2>3. Len(all) \in Int
    BY <2>2
  <2>4. ReplacedLength(s, t, r) \in Int
    BY <2>3, LengthAhead
  <2>5. QED
    BY <1>1, <2>4
<1>8. QED
  BY <1>1, <1>5, <1>6, <1>7 DEF Filled

\* What ReplaceSound says, of one string, mark and replacement (SXString.c:130-166).
LEMMA ReplaceIsSound ==
    ASSUME NEW C, NEW s \in Seq(C), NEW t \in Seq(C), NEW r \in Seq(C), Cuttable(s, t), t # <<>>
    PROVE  /\ SXStringReplacingOccurrencesOfStringDefined(s, t, r)
           /\ SXStringReplacingOccurrencesOfString(s, t, r, {})
                = Joined(SXStringSubStringsTrimmedByString(s, t), r)
<1> DEFINE L == SXStringSubCStringLocations(s, t)
           n == Len(s) + Len(L)
           f == Replacing(s, t, r)
           A == Positions(C)
           N == Pieces(s, t)
           S == {k \in 0..n : Tracks(s, t, r, f[k]) /\ (k <= f[k].pos \/ Filled(s, t, r, f[k]))}
<1>1. /\ n \in Nat /\ f \in [0..n -> A]
      /\ f[0] = [pos |-> 0, n |-> 0, buf |-> <<>>]
      /\ \A k \in 1..n : f[k] = ReplaceTurn(s, t, r, f[k - 1])
      /\ SXStringReplacingOccurrencesOfString(s, t, r, {}) = f[n].buf
  BY ReplacingIs
<1>2. Len(L) \in Nat /\ Len(s) \in Nat
  BY LocationsSeq
<1> HIDE DEF f, L, n
<1>3. 0 \in S
  <2> DEFINE to == PieceTo(s, t, 1)  a == [pos |-> 0, n |-> 0, buf |-> <<>>]
  <2>1. 1 \in 1..N /\ a.n + 1 = 1 /\ a.pos = 0 /\ a.buf = <<>>
    BY PiecesNumber
  <2>2. PieceFrom(s, t, 1) = 0
    BY DEF PieceFrom
  <2>3. to \in Nat /\ to <= Len(s) /\ 0 \in Nat /\ 0 <= to
    BY <2>1, PieceEnds
  <2>4. Pasted(s, t, r, 1) = Part(s, 0, to)
    BY PastedIs
  <2>5. <<>> \o Part(s, 0, to) = Part(s, 0, to)
    <3>1. Part(s, 0, to) \in Seq(C)
      BY <2>3, PartIs
    <3>2. QED
      BY <3>1, ConcatEmptySeq
  <2> HIDE DEF a, to
  <2>6. Tracks(s, t, r, a)
    <3>1. a.n + 1 \in 1..N
      BY <2>1
    <3>2. PieceFrom(s, t, a.n + 1) <= a.pos /\ a.pos <= PieceTo(s, t, a.n + 1)
      BY <2>1, <2>2, <2>3 DEF to
    <3>3. a.buf \o Part(s, a.pos, PieceTo(s, t, a.n + 1)) = Pasted(s, t, r, a.n + 1)
      BY <2>1, <2>4, <2>5, Zenon DEF to
    <3>4. QED
      BY <3>1, <3>2, <3>3 DEF Tracks
  <2>7. f[0] = a
    BY <1>1 DEF a
  <2>8. 0 <= f[0].pos /\ 0 \in 0..n
    BY <1>1, <2>1, <2>7
  <2>9. QED
    BY <2>6, <2>7, <2>8
<1>4. ASSUME NEW k \in 1..n, k - 1 \in S PROVE k \in S
  <2> DEFINE st == f[k - 1]
  <2>1. st \in A /\ f[k] = ReplaceTurn(s, t, r, st) /\ f[k] \in A /\ k \in 0..n
    BY <1>1
  <2>2. Tracks(s, t, r, st) /\ (k - 1 <= st.pos \/ Filled(s, t, r, st))
    BY <1>4
  <2> HIDE DEF st
  <2>3. /\ Tracks(s, t, r, ReplaceTurn(s, t, r, st))
        /\ Filled(s, t, r, st) => ReplaceTurn(s, t, r, st) = st
        /\ ~Filled(s, t, r, st) => ReplaceTurn(s, t, r, st).pos >= st.pos + 1
    BY <2>1, <2>2, TurnTracks
  <2>4. st.pos \in Nat /\ f[k].pos \in Nat
    BY <2>1 DEF Positions
  <2>5. k <= f[k].pos \/ Filled(s, t, r, f[k])
    BY <1>1, <2>1, <2>2, <2>3, <2>4
  <2>6. QED
    BY <2>1, <2>3, <2>5
<1>5. Tracks(s, t, r, f[n]) /\ (n <= f[n].pos \/ Filled(s, t, r, f[n]))
  <2> HIDE DEF S
  <2>1. 0..n \subseteq S
    BY <1>1, <1>3, <1>4, UpTo
  <2>2. n \in S
    BY <1>1, <2>1
  <2>3. QED
    BY <2>2 DEF S
<1> DEFINE end == f[n]
<1>6. end \in A
  BY <1>1
<1>7. Filled(s, t, r, end)
  <2>1. end.pos \in Nat
    BY <1>6 DEF Positions
  <2>2. n <= end.pos => ~(end.pos < Len(s))
    BY <1>2, <2>1 DEF n
  <2>3. QED
    BY <1>5, <2>2 DEF Filled
<1>8. end.buf = Pasted(s, t, r, N)
  <2> HIDE DEF end
  <2>1. QED
    BY <1>5, <1>6, <1>7, FilledIsWhole DEF end
<1>9. SXStringReplacingOccurrencesOfString(s, t, r, {}) = Pasted(s, t, r, N)
  BY <1>1, <1>8
<1>10. Joined(SXStringSubStringsTrimmedByString(s, t), r) = Pasted(s, t, r, N)
  BY PastedIs
<1>11. SXStringReplacingOccurrencesOfStringDefined(s, t, r)
  <2> DEFINE all == Pasted(s, t, r, N)
  <2>1. ReplacedLength(s, t, r) = Len(all)
    BY LengthAhead
  <2>2. all \in Seq(C)
    BY PiecesNumber, PastedIs
  <2> HIDE DEF all
  <2>3. Len(all) \in 0..Len(all)
    BY <2>2
  <2>4. L # <<>>
    BY DEF Cuttable, L
  <2>5. QED
    BY <1>9, <2>1, <2>3, <2>4 DEF SXStringReplacingOccurrencesOfStringDefined, L, all
<1>12. QED
  BY <1>9, <1>10, <1>11

-----------------------------------------------------------------------------
(* Removing.                                                               *)

\* How far what follows i - 1 removed occurrences has moved.
Shift(t, i) == (Len(<<>>) - Len(t)) * (i - 1)

\* After each removal what follows stands further to the left by a mark.
LEMMA ShiftIs ==
    ASSUME NEW C, NEW t \in Seq(C), NEW i \in Nat, i >= 1
    PROVE  /\ Shift(t, i) \in Int /\ Shift(t, i) <= 0
           /\ Shift(t, 1) = 0 /\ Shift(t, i + 1) = Shift(t, i) - Len(t)
<1> DEFINE d == Len(<<>>) - Len(t)
<1>1. d \in Int /\ d <= 0 /\ d = 0 - Len(t) /\ Len(t) \in Nat
  OBVIOUS
<1> HIDE DEF d
<1>2. d * ((i + 1) - 1) = d * (i - 1) + d /\ d * (i - 1) \in Int
  BY <1>1
<1>3. d * (1 - 1) = 0
  BY <1>1
<1>4. d * (i - 1) <= 0
  BY <1>1
<1>5. QED
  BY <1>1, <1>2, <1>3, <1>4 DEF Shift, d

\* The string when the occurrences before piece i have gone.
Shrunk(s, t, i) ==
    (IF i = 1 THEN <<>> ELSE Pasted(s, t, <<>>, i - 1)) \o Part(s, PieceFrom(s, t, i), Len(s))

\* The length of what is pasted with nothing between the pieces.
LEMMA PastedShortLength ==
    ASSUME NEW C, NEW s \in Seq(C), NEW t \in Seq(C), Cuttable(s, t), NEW i \in 1..Pieces(s, t)
    PROVE  Len(Pasted(s, t, <<>>, i)) = PieceTo(s, t, i) + Shift(t, i) /\ Pasted(s, t, <<>>, i) \in Seq(C)
<1>1. <<>> \in Seq(C)
  OBVIOUS
<1>2. Len(Pasted(s, t, <<>>, i)) = PieceTo(s, t, i) + (Len(<<>>) - Len(t)) * (i - 1)
  <2>1. ASSUME NEW r \in Seq(C)
        PROVE  Len(Pasted(s, t, r, i)) = PieceTo(s, t, i) + (Len(r) - Len(t)) * (i - 1)
    BY PastedLength
  <2>2. QED
    BY <1>1, <2>1, Zenon
<1>3. Pasted(s, t, <<>>, i) \in Seq(C)
  BY <1>1, PastedIs
<1>4. QED
  BY <1>2, <1>3 DEF Shift

\* The pieces before the i-th, without their marks, end where it begins, shifted.
LEMMA ShrunkParts ==
    ASSUME NEW C, NEW s \in Seq(C), NEW t \in Seq(C), Cuttable(s, t), NEW i \in 1..Pieces(s, t)
    PROVE  /\ (IF i = 1 THEN <<>> ELSE Pasted(s, t, <<>>, i - 1)) \in Seq(C)
           /\ Len(IF i = 1 THEN <<>> ELSE Pasted(s, t, <<>>, i - 1))
                = PieceFrom(s, t, i) + Shift(t, i)
           /\ Shift(t, i) \in Int /\ Shift(t, i) <= 0
<1> DEFINE N == Pieces(s, t)
<1>1. i \in Nat /\ i >= 1 /\ Len(t) \in Nat /\ N \in Nat
  BY PiecesNumber
<1>2. Shift(t, i) \in Int /\ Shift(t, i) <= 0 /\ Shift(t, 1) = 0
  BY <1>1, ShiftIs
<1>3. CASE i = 1
  <2>1. PieceFrom(s, t, 1) = 0
    BY DEF PieceFrom
  <2>2. QED
    BY <1>2, <1>3, <2>1
<1>4. CASE i # 1
  <2> DEFINE j == i - 1
  <2>1. j \in 1..N /\ j # N /\ j + 1 = i /\ j \in Nat /\ j >= 1
    BY <1>1, <1>4
  <2> HIDE DEF j, N
  <2>2. Len(Pasted(s, t, <<>>, j)) = PieceTo(s, t, j) + Shift(t, j) /\ Pasted(s, t, <<>>, j) \in Seq(C)
    BY <2>1, PastedShortLength DEF N
  <2>3. PieceFrom(s, t, i) = PieceTo(s, t, j) + Len(t)
    <3>1. PieceFrom(s, t, j + 1) = PieceTo(s, t, j) + Len(t)
      BY <2>1, PieceNext DEF N
    <3>2. QED
      BY <2>1, <3>1
  <2>4. Shift(t, j + 1) = Shift(t, j) - Len(t) /\ Shift(t, j) \in Int
    BY <2>1, ShiftIs
  <2>5. PieceTo(s, t, j) \in Nat
    BY <2>1, PieceEnds DEF N
  <2>6. PieceTo(s, t, j) + Shift(t, j) = PieceFrom(s, t, i) + Shift(t, i)
    BY <1>1, <2>1, <2>3, <2>4, <2>5
  <2>7. QED
    BY <1>2, <1>4, <2>2, <2>6 DEF j
<1>5. QED
  BY <1>3, <1>4

\* The shrunk string holds the rest of the original, shifted.
LEMMA ShrunkIs ==
    ASSUME NEW C, NEW s \in Seq(C), NEW t \in Seq(C), Cuttable(s, t), NEW i \in 1..Pieces(s, t)
    PROVE  /\ Shrunk(s, t, i) \in Seq(C)
           /\ Len(Shrunk(s, t, i)) = Len(s) + Shift(t, i)
           /\ \A p \in Nat : PieceFrom(s, t, i) <= p /\ p < Len(s) =>
                Shrunk(s, t, i)[p + Shift(t, i) + 1] = s[p + 1]
<1> DEFINE h == IF i = 1 THEN <<>> ELSE Pasted(s, t, <<>>, i - 1)
           from == PieceFrom(s, t, i)
           d == Shift(t, i)
           v == Part(s, from, Len(s))
           w == Shrunk(s, t, i)
<1>1. h \in Seq(C) /\ Len(h) = from + d /\ d \in Int /\ d <= 0
  BY ShrunkParts, Zenon
<1>2. from \in Nat /\ from <= Len(s) /\ Len(s) \in Nat
  BY PieceEnds
<1>3. w = h \o v
  BY DEF Shrunk
<1> HIDE DEF h, from, d, w
<1>4. v \in Seq(C) /\ Len(v) = Len(s) - from /\ \A k \in 1..Len(s) - from : v[k] = s[from + k]
  <2>1. Len(s) <= Len(s)
    BY <1>2
  <2>2. QED
    BY <1>2, <2>1, PartIs, Zenon
<1> HIDE DEF v
<1>5. /\ w \in Seq(C) /\ Len(w) = Len(h) + Len(v)
      /\ \A x \in 1..Len(h) + Len(v) : w[x] = IF x <= Len(h) THEN h[x] ELSE v[x - Len(h)]
  BY <1>1, <1>3, <1>4, ConcatProperties
<1>6. Len(w) = Len(s) + d
  BY <1>1, <1>2, <1>4, <1>5
<1>7. ASSUME NEW p \in Nat, from <= p, p < Len(s) PROVE w[p + d + 1] = s[p + 1]
  <2> DEFINE x == p + d + 1  k == p - from + 1
  <2>1. /\ x \in 1..Len(h) + Len(v) /\ ~(x <= Len(h)) /\ x - Len(h) = k
        /\ k \in 1..Len(s) - from /\ from + k = p + 1
    <3>1. Len(h) \in Nat
      BY <1>1
    <3>2. QED
      BY <1>1, <1>2, <1>4, <1>7, <3>1
  <2> HIDE DEF x, k
  <2>2. w[x] = v[k]
    BY <1>5, <2>1
  <2>3. v[k] = s[from + k]
    BY <1>4, <2>1
  <2>4. QED
    BY <2>1, <2>2, <2>3 DEF x
<1>8. QED
  BY <1>5, <1>6, <1>7 DEF from, d, w

\* An occurrence further on is still found, at the place it has moved to.
LEMMA ShrunkMatches ==
    ASSUME NEW C, NEW s \in Seq(C), NEW t \in Seq(C), Cuttable(s, t), NEW i \in 1..Pieces(s, t),
           NEW q \in Nat, PieceFrom(s, t, i) <= q - Shift(t, i)
    PROVE  MatchesAt(Shrunk(s, t, i), q, t) <=> MatchesAt(s, q - Shift(t, i), t)
<1> DEFINE w == Shrunk(s, t, i)
           d == Shift(t, i)
           from == PieceFrom(s, t, i)
<1>1. w \in Seq(C) /\ Len(w) = Len(s) + d
  BY ShrunkIs
<1>2. \A p \in Nat : from <= p /\ p < Len(s) => w[p + d + 1] = s[p + 1]
  BY ShrunkIs
<1>3. d \in Int /\ d <= 0
  BY ShrunkParts
<1>4. Len(s) \in Nat /\ Len(t) \in Nat /\ q - d \in Nat /\ from <= q - d /\ from \in Nat
  BY <1>3, PieceEnds
<1> HIDE DEF w, d, from
<1>5. MatchesAt(w, q, t) <=> q + Len(t) <= Len(w) /\ \A j \in 1..Len(t) : w[q + j] = t[j]
  <2>1. MatchesAt(w, q, t) <=> Reads(w, q, t)
    BY <1>1, MatchReads, Zenon
  <2>2. QED
    BY <2>1, Zenon DEF Reads
<1> DEFINE p == q - d
<1>6. p \in Nat
  BY <1>4
<1> HIDE DEF p
<1>7. MatchesAt(s, p, t) <=> p + Len(t) <= Len(s) /\ \A j \in 1..Len(t) : s[p + j] = t[j]
  <2>1. MatchesAt(s, p, t) <=> Reads(s, p, t)
    BY <1>6, MatchReads, Zenon
  <2>2. QED
    BY <2>1, Zenon DEF Reads
<1>8. q + Len(t) <= Len(w) <=> p + Len(t) <= Len(s)
  BY <1>1, <1>3, <1>4 DEF p
<1>9. ASSUME p + Len(t) <= Len(s), NEW j \in 1..Len(t) PROVE w[q + j] = s[p + j]
  <2> DEFINE x == p + j - 1
  <2>1. x \in Nat /\ from <= x /\ x < Len(s) /\ x + d + 1 = q + j /\ x + 1 = p + j
    BY <1>3, <1>4, <1>6, <1>9 DEF p
  <2> HIDE DEF x
  <2>2. w[x + d + 1] = s[x + 1]
    BY <1>2, <2>1
  <2>3. QED
    BY <2>1, <2>2
<1>10. QED
  <2>1. p + Len(t) <= Len(s) =>
          ((\A j \in 1..Len(t) : w[q + j] = t[j]) <=> \A j \in 1..Len(t) : s[p + j] = t[j])
    BY <1>9
  <2>2. MatchesAt(w, q, t) <=> MatchesAt(s, p, t)
    BY <1>5, <1>7, <1>8, <2>1
  <2>3. QED
    BY <2>2 DEF p, w, d

\* Removing the middle of three strings leaves the other two.
LEMMA RangeRemoved ==
    ASSUME NEW C, NEW u \in Seq(C), NEW v \in Seq(C), NEW w \in Seq(C)
    PROVE  SXStringRemovingRange((u \o v) \o w, Len(u), Len(v)) = u \o w
<1> DEFINE x == u \o v
           y == x \o w
<1>1. x \in Seq(C) /\ Len(x) = Len(u) + Len(v) /\ Len(u) \in Nat /\ Len(v) \in Nat /\ Len(w) \in Nat
  OBVIOUS
<1>2. Part(x, 0, Len(u)) = u
  BY PartsOfConcat
<1> HIDE DEF x
<1>3. Part(y, 0, Len(x)) = x /\ Part(y, Len(x), Len(y)) = w
  BY <1>1, PartsOfConcat
<1>4. y \in Seq(C) /\ Len(y) = Len(x) + Len(w)
  <2>1. x \in Seq(C)
    BY <1>1
  <2>2. QED
    BY <2>1, ConcatProperties
<1> HIDE DEF y
<1>5. Part(y, 0, Len(u)) = u
  <2>1. /\ 0 \in Nat /\ Len(x) \in Nat /\ Len(u) \in Nat
        /\ 0 <= Len(x) /\ Len(x) <= Len(y) /\ 0 <= Len(u) /\ Len(u) <= Len(x) - 0
    BY <1>1, <1>4
  <2>2. Part(Part(y, 0, Len(x)), 0, Len(u)) = Part(y, 0 + 0, 0 + Len(u))
    BY <1>4, <2>1, PartOfPart
  <2>3. 0 + 0 = 0 /\ 0 + Len(u) = Len(u)
    BY <1>1
  <2>4. QED
    BY <1>2, <1>3, <2>2, <2>3
<1>6. SubSeq(y, 1, Len(u)) = u /\ SubSeq(y, Len(u) + Len(v) + 1, Len(y)) = w
  <2>1. 0 + 1 = 1 /\ Len(x) + 1 = Len(u) + Len(v) + 1
    BY <1>1
  <2>2. QED
    BY <1>3, <1>5, <2>1 DEF Part
<1>7. QED
  BY <1>6 DEF SXStringRemovingRange, y, x

\* Removing the next mark gives the next shrunk string.
LEMMA ShrunkRemoved ==
    ASSUME NEW C, NEW s \in Seq(C), NEW t \in Seq(C), Cuttable(s, t),
           NEW i \in 1..Pieces(s, t), i # Pieces(s, t)
    PROVE  SXStringRemovingRange(Shrunk(s, t, i), PieceTo(s, t, i) + Shift(t, i), Len(t))
             = Shrunk(s, t, i + 1)
<1> DEFINE N == Pieces(s, t)
           from == PieceFrom(s, t, i)
           to == PieceTo(s, t, i)
           next_ == PieceFrom(s, t, i + 1)
           u == Pasted(s, t, <<>>, i)
           h == IF i = 1 THEN <<>> ELSE Pasted(s, t, <<>>, i - 1)
           p == Part(s, from, to)
           v == Part(s, to, next_)
           w == Part(s, next_, Len(s))
           rest == Part(s, to, Len(s))
<1>1. v = t /\ next_ = to + Len(t) /\ i + 1 \in 1..N
  BY PieceNext
<1>2. /\ from \in Nat /\ to \in Nat /\ to <= Len(s) /\ Len(s) \in Nat /\ from <= to /\ Len(t) \in Nat
      /\ next_ \in Nat /\ next_ <= Len(s) /\ to <= next_
  <2>1. from <= to
    BY DEF Cuttable
  <2>2. next_ \in Nat /\ next_ <= Len(s)
    BY <1>1, PieceEnds
  <2>3. from \in Nat /\ to \in Nat /\ to <= Len(s)
    BY PieceEnds
  <2>4. QED
    BY <1>1, <2>1, <2>2, <2>3
<1>3. u \in Seq(C) /\ Len(u) = to + Shift(t, i)
  BY PastedShortLength
<1>4. h \in Seq(C)
  BY ShrunkParts
<1>5. u = h \o p
  <2>1. CASE i = 1
    <3>1. from = 0
      BY <2>1 DEF PieceFrom
    <3>2. u = Part(s, 0, to)
      <4>1. \A r \in Seq(C) : Pasted(s, t, r, 1) = Part(s, 0, PieceTo(s, t, 1))
        BY PastedIs
      <4>2. <<>> \in Seq(C)
        OBVIOUS
      <4>3. Pasted(s, t, <<>>, 1) = Part(s, 0, PieceTo(s, t, 1))
        BY <4>1, <4>2, Zenon
      <4>4. QED
        BY <2>1, <4>3, Zenon
    <3>3. p \in Seq(C)
      BY <1>2, PartIs
    <3>4. <<>> \o p = p
      BY <3>3, ConcatEmptySeq
    <3>5. QED
      BY <2>1, <3>1, <3>2, <3>4
  <2>2. CASE i # 1
    <3> DEFINE j == i - 1
    <3>1. j \in 1..N /\ j # N /\ j + 1 = i
      <4>1. N \in Nat
        BY PiecesNumber
      <4>2. i \in 1..N
        OBVIOUS
      <4> HIDE DEF N
      <4>3. QED
        BY <2>2, <4>1, <4>2
    <3>2. \A r \in Seq(C) : Pasted(s, t, r, j + 1)
            = Pasted(s, t, r, j) \o r \o Part(s, PieceFrom(s, t, j + 1), PieceTo(s, t, j + 1))
      <4> HIDE DEF j
      <4>1. TAKE r \in Seq(C)
      <4>2. QED
        BY <3>1, PastedIs
    <3> HIDE DEF j
    <3>3. <<>> \in Seq(C)
      OBVIOUS
    <3>4. u = Pasted(s, t, <<>>, j) \o <<>> \o p
      BY <3>1, <3>2, <3>3
    <3>5. h = Pasted(s, t, <<>>, j)
      BY <2>2 DEF j
    <3>6. h \o <<>> = h
      BY <1>4, ConcatEmptySeq
    <3>7. QED
      BY <3>4, <3>5, <3>6, Zenon
  <2>3. QED
    BY <2>1, <2>2
<1>6. Shrunk(s, t, i) = h \o Part(s, from, Len(s)) /\ Shrunk(s, t, i + 1) = u \o w
  <2>1. i + 1 # 1 /\ (i + 1) - 1 = i
    OBVIOUS
  <2>2. QED
    BY <2>1 DEF Shrunk
<1>7. p \in Seq(C) /\ v \in Seq(C) /\ w \in Seq(C) /\ rest \in Seq(C)
  <2> HIDE DEF from, to, next_
  <2>1. Len(s) <= Len(s)
    BY <1>2
  <2>2. p \in Seq(C)
    BY <1>2, PartIs
  <2>3. v \in Seq(C)
    BY <1>2, PartIs
  <2>4. w \in Seq(C) /\ rest \in Seq(C)
    BY <1>2, <2>1, PartIs
  <2>5. QED
    BY <2>2, <2>3, <2>4
<1>8. p \o rest = Part(s, from, Len(s)) /\ v \o w = rest
  <2> HIDE DEF from, to, next_
  <2>1. Len(s) <= Len(s)
    BY <1>2
  <2>2. p \o rest = Part(s, from, Len(s))
    BY <1>2, <2>1, PartsMeet
  <2>3. v \o w = rest
    BY <1>2, <2>1, PartsMeet
  <2>4. QED
    BY <2>2, <2>3
<1> HIDE DEF from, to, next_, u, h, p, v, w, rest
<1>9. Shrunk(s, t, i) = (u \o v) \o w
  <2>1. Regroup(h, p, rest)
    BY <1>4, <1>7, Regrouping, Zenon
  <2>2. Regroup(u, v, w)
    BY <1>3, <1>7, Regrouping, Zenon
  <2>3. QED
    BY <1>5, <1>6, <1>8, <2>1, <2>2, Zenon DEF Regroup
<1>10. SXStringRemovingRange((u \o v) \o w, Len(u), Len(v)) = u \o w
  BY <1>3, <1>7, RangeRemoved
<1>11. SXStringRemovingRange(Shrunk(s, t, i), to + Shift(t, i), Len(t)) = Shrunk(s, t, i + 1)
  BY <1>1, <1>3, <1>6, <1>9, <1>10, Zenon
<1>12. QED
  BY <1>11 DEF to

RemoveTurn(t, str, k) ==
    IF k - 1 < Len(str) /\ MatchesAt(str, k - 1, t)
    THEN SXStringRemovingRange(str, k - 1, Len(t)) ELSE str

\* What the turns of SXStringRemoveOcurrenceOfCString leave.
Removing(s, t) ==
    LET after[k \in 0..Len(s)] == IF k = 0 THEN s ELSE RemoveTurn(t, after[k - 1], k)
    IN  after

\* A turn of the removing loop leaves a string.
LEMMA RemoveTurnType ==
    ASSUME NEW C, NEW t \in Seq(C), NEW str \in Seq(C), NEW k \in Nat, k >= 1
    PROVE  RemoveTurn(t, str, k) \in Seq(C)
<1>1. ASSUME MatchesAt(str, k - 1, t) PROVE SXStringRemovingRange(str, k - 1, Len(t)) \in Seq(C)
  <2> DEFINE a == k - 1  b == k - 1 + Len(t)  n == Len(str)
  <2>1. a \in Nat /\ b \in Nat /\ n \in Nat /\ 0 \in Nat /\ 0 <= a /\ a <= n /\ b <= n /\ n <= n
    BY <1>1 DEF MatchesAt
  <2> HIDE DEF a, b
  <2>2. Part(str, 0, a) \in Seq(C)
    BY <2>1, PartIs
  <2>3. Part(str, b, n) \in Seq(C)
    BY <2>1, PartIs
  <2>4. SXStringRemovingRange(str, k - 1, Len(t)) = Part(str, 0, a) \o Part(str, b, n)
    BY DEF SXStringRemovingRange, Part, a, b
  <2>5. \A u, v \in Seq(C) : u \o v \in Seq(C)
    OBVIOUS
  <2>6. QED
    BY <2>2, <2>3, <2>4, <2>5, Zenon
<1>2. QED
  BY <1>1, Zenon DEF RemoveTurn

\* The removing loop, turn by turn (SXString.c:238-245).
LEMMA RemovingIs ==
    ASSUME NEW C, NEW s \in Seq(C), NEW t \in Seq(C)
    PROVE  LET f == Removing(s, t)
           IN  /\ f \in [0..Len(s) -> Seq(C)] /\ f[0] = s
               /\ \A k \in 1..Len(s) : f[k] = RemoveTurn(t, f[k - 1], k)
               /\ SXStringRemoveOcurrencesOfCStrings(s, t) = f[Len(s)]
<1> DEFINE A == Seq(C)
           n == Len(s)
           a == s
           step(x, k) == RemoveTurn(t, x, k)
           G == [k \in 1..n |-> [x \in A |-> step(x, k)]]
           f == Turns(n, a, G)
           g == Removing(s, t)
<1>1. n \in Nat /\ a \in A
  OBVIOUS
<1>2. \A x \in A, k \in 1..n : step(x, k) \in A
  BY RemoveTurnType
<1>3. /\ g = CHOOSE after : after = [k \in 0..n |-> IF k = 0 THEN a ELSE step(after[k - 1], k)]
      /\ SXStringRemoveOcurrencesOfCStrings(s, t) = g[n]
  BY DEF Removing, SXStringRemoveOcurrencesOfCStrings, SXStringRemoveOcurrenceOfCString, Loop, RemoveTurn
<1> HIDE DEF A, n, a, step, g
<1>4. G \in [1..n -> [A -> A]]
  BY <1>2
<1>5. \A k \in 1..n, x \in A : G[k][x] = step(x, k)
  OBVIOUS
<1> HIDE DEF G
<1>6. AreTurns(f, n, A, a, G)
  BY <1>1, <1>4, TurnsRun, Zenon
<1> HIDE DEF f
<1>7. ASSUME NEW k \in 1..n PROVE f[k - 1] \in A /\ f[k] = step(f[k - 1], k)
  BY <1>1, <1>5, <1>6 DEF AreTurns
<1>8. f = [k \in 0..n |-> IF k = 0 THEN a ELSE step(f[k - 1], k)]
  BY <1>6, <1>7 DEF AreTurns
<1>9. g = [k \in 0..n |-> IF k = 0 THEN a ELSE step(g[k - 1], k)]
  BY <1>3, <1>8
<1> DEFINE T == {k \in 0..n : g[k] \in A}
<1>10. 0 \in T /\ \A k \in 1..n : k - 1 \in T => k \in T
  BY <1>1, <1>2, <1>9
<1> HIDE DEF T
<1>11. 0..n \subseteq T
  BY <1>1, <1>10, UpTo
<1>12. g \in [0..n -> A] /\ g[0] = a /\ \A k \in 1..n : g[k] = step(g[k - 1], k)
  BY <1>1, <1>9, <1>11 DEF T
<1>13. QED
  BY <1>3, <1>12 DEF A, n, a, step, g

\* The walk is at position k of str, in what is left of piece i.
WalksIn(s, t, k, str, i) ==
    /\ str = Shrunk(s, t, i)
    /\ PieceFrom(s, t, i) <= k - Shift(t, i)
    /\ i # Pieces(s, t) => k - Shift(t, i) <= PieceTo(s, t, i)

Walks(s, t, k, str) == \E i \in 1..Pieces(s, t) : WalksIn(s, t, k, str, i)

\* No two occurrences touch, and there is one.
LEMMA ApartIsCuttable ==
    ASSUME NEW C, NEW s \in Seq(C), NEW t \in Seq(C),
           Occurrences(s, t) # {}, Apart(s, t, Len(t) + 1)
    PROVE  /\ Cuttable(s, t)
           /\ \A i \in 1..Pieces(s, t) :
                i # 1 /\ i # Pieces(s, t) => PieceFrom(s, t, i) < PieceTo(s, t, i)
<1> DEFINE L == SXStringSubCStringLocations(s, t)
           N == Pieces(s, t)
<1>1. \A i \in Occurrences(s, t) : i \in Nat
  BY DEF Occurrences
<1>2. Len(t) \in Nat
  OBVIOUS
<1>3. Apart(s, t, Len(t))
  BY <1>1, <1>2 DEF Apart
<1>4. Cuttable(s, t)
  BY <1>3, CuttableIffApart
<1>5. ASSUME NEW i \in 1..N, i # 1, i # N PROVE PieceFrom(s, t, i) < PieceTo(s, t, i)
  <2>1. N - 1 = Len(L) /\ N \in Nat
    BY PiecesNumber
  <2>2. Lists(L, Occurrences(s, t))
    BY LocationsList
  <2> HIDE DEF L, N
  <2>3. i - 1 \in 1..Len(L) /\ i \in 1..Len(L) /\ i - 1 < i /\ i # Len(L) + 1
    BY <1>5, <2>1
  <2>4. L[i - 1] \in Occurrences(s, t) /\ L[i] \in Occurrences(s, t) /\ L[i - 1] < L[i]
    BY <2>2, <2>3 DEF Lists
  <2>5. L[i] - L[i - 1] >= Len(t) + 1
    BY <2>4 DEF Apart
  <2>6. PieceFrom(s, t, i) = L[i - 1] + Len(t) /\ PieceTo(s, t, i) = L[i]
    BY <1>5, <2>3 DEF PieceFrom, PieceTo, L
  <2>7. L[i] \in Nat /\ L[i - 1] \in Nat
    BY <1>1, <2>4
  <2>8. QED
    BY <1>2, <2>5, <2>6, <2>7
<1>6. QED
  BY <1>4, <1>5

\* A turn keeps the loop in a piece or takes it to the next.
LEMMA TurnWalks ==
    ASSUME NEW C, NEW s \in Seq(C), NEW t \in Seq(C), t # <<>>,
           Occurrences(s, t) # {}, Apart(s, t, Len(t) + 1),
           NEW k \in Nat, k >= 1, NEW str \in Seq(C), NEW i \in 1..Pieces(s, t),
           WalksIn(s, t, k - 1, str, i)
    PROVE  Walks(s, t, k, RemoveTurn(t, str, k))
<1> DEFINE N == Pieces(s, t)
           d == Shift(t, i)
           q == k - 1
           p == q - d
           from == PieceFrom(s, t, i)
           to == PieceTo(s, t, i)
<1>1. Cuttable(s, t)
  BY ApartIsCuttable
<1>2. str = Shrunk(s, t, i) /\ from <= p /\ (i # N => p <= to)
  BY DEF WalksIn
<1>3. d \in Int /\ d <= 0
  BY <1>1, ShrunkParts
<1>4. from \in Nat /\ to \in Nat /\ to <= Len(s) /\ Len(t) \in Nat /\ Len(t) > 0 /\ Len(s) \in Nat
  BY PieceEnds
<1>5. q \in Nat /\ p \in Nat /\ k - d = p + 1 /\ i \in Nat /\ i >= 1
  BY <1>3
<1>6. Len(str) = Len(s) + d
  BY <1>1, <1>2, ShrunkIs
<1>7. MatchesAt(str, q, t) <=> MatchesAt(s, p, t)
  <2>1. PieceFrom(s, t, i) <= q - Shift(t, i)
    BY <1>2
  <2> HIDE DEF q
  <2>2. MatchesAt(Shrunk(s, t, i), q, t) <=> MatchesAt(s, q - Shift(t, i), t)
    BY <1>1, <1>5, <2>1, ShrunkMatches, Zenon
  <2>3. QED
    BY <1>2, <2>2
<1> HIDE DEF N, d, q, p, from, to
<1>8. CASE i # N /\ p = to
  <2> DEFINE j == i + 1
  <2>1. PieceFrom(s, t, j) = to + Len(t) /\ j \in 1..N /\ MatchesAt(s, to, t)
    <3>1. PieceFrom(s, t, i + 1) = to + Len(t) /\ i + 1 \in 1..N
      BY <1>8, PieceNext DEF N, to
    <3>2. to = SXStringSubCStringLocations(s, t)[i]
      BY <1>8, PieceNext DEF N, to
    <3>3. i \in 1..Len(SXStringSubCStringLocations(s, t))
      <4>1. N - 1 = Len(SXStringSubCStringLocations(s, t)) /\ N \in Nat /\ i \in 1..N
        BY PiecesNumber DEF N
      <4>2. QED
        BY <1>8, <4>1
    <3>4. MatchesAt(s, to, t)
      BY <3>2, <3>3, LocationIs
    <3>5. QED
      BY <3>1, <3>4
  <2>2. MatchesAt(str, q, t)
    BY <1>7, <1>8, <2>1
  <2>3. q < Len(str)
    BY <1>4, <1>5, <2>2 DEF MatchesAt
  <2>4. RemoveTurn(t, str, k) = SXStringRemovingRange(str, q, Len(t))
    BY <2>2, <2>3 DEF RemoveTurn, q
  <2>5. SXStringRemovingRange(Shrunk(s, t, i), to + d, Len(t)) = Shrunk(s, t, i + 1)
    BY <1>1, <1>8, ShrunkRemoved DEF N, to, d
  <2>6. q = to + d
    BY <1>3, <1>4, <1>5, <1>8 DEF p
  <2>7. RemoveTurn(t, str, k) = Shrunk(s, t, j)
    BY <1>2, <2>4, <2>5, <2>6
  <2>8. Shift(t, j) = d - Len(t)
    BY <1>5, ShiftIs DEF d
  <2>9. k - Shift(t, j) = PieceFrom(s, t, j) + 1
    BY <1>3, <1>4, <1>5, <1>8, <2>1, <2>8
  <2>10. j # N => PieceFrom(s, t, j) + 1 <= PieceTo(s, t, j)
    <3>1. j # 1
      BY <1>5
    <3>2. j # N => PieceFrom(s, t, j) < PieceTo(s, t, j)
      BY <2>1, <3>1, ApartIsCuttable DEF N
    <3>3. PieceFrom(s, t, j) \in Nat /\ PieceTo(s, t, j) \in Nat
      BY <2>1, PieceEnds DEF N
    <3>4. QED
      BY <3>2, <3>3
  <2>11. PieceFrom(s, t, j) <= k - Shift(t, j)
    BY <1>4, <2>1, <2>9
  <2>12. WalksIn(s, t, k, RemoveTurn(t, str, k), j)
    BY <2>7, <2>9, <2>10, <2>11 DEF WalksIn, N
  <2>13. QED
    BY <2>1, <2>12 DEF Walks, N
<1>9. CASE ~(i # N /\ p = to)
  <2>1. ~(q < Len(str) /\ MatchesAt(str, q, t))
    <3>1. SUFFICES ASSUME q < Len(str), MatchesAt(s, p, t) PROVE FALSE
      BY <1>7
    <3>2. p <= to
      <4>1. i = N => to = Len(s)
        BY PiecesNumber DEF PieceTo, N, to
      <4>2. p < Len(s)
        BY <1>3, <1>4, <1>5, <1>6, <3>1 DEF p
      <4>3. QED
        BY <1>2, <1>4, <1>5, <4>1, <4>2
    <3>3. i # N /\ p = to
      BY <1>2, <1>5, <3>1, <3>2, OccurrenceEndsPiece DEF N, from, to
    <3>4. QED
      BY <1>9, <3>3
  <2>2. RemoveTurn(t, str, k) = str
    BY <2>1 DEF RemoveTurn, q
  <2>3. from <= p + 1 /\ (i # N => p + 1 <= to)
    BY <1>2, <1>4, <1>5, <1>9
  <2>4. WalksIn(s, t, k, str, i)
    BY <1>2, <1>5, <2>3 DEF WalksIn, N, d, from, to
  <2>5. QED
    BY <2>2, <2>4 DEF Walks
<1>10. QED
  BY <1>8, <1>9

\* What RemoveSound says, of one string and one mark (SXString.c:228-253).
LEMMA RemoveIsSound ==
    ASSUME NEW C, NEW s \in Seq(C), NEW t \in Seq(C), t # <<>>,
           Occurrences(s, t) # {}, Apart(s, t, Len(t) + 1)
    PROVE  SXStringRemoveOcurrencesOfCStrings(s, t)
             = Joined(SXStringSubStringsTrimmedByString(s, t), <<>>)
<1> DEFINE n == Len(s)
           f == Removing(s, t)
           N == Pieces(s, t)
           S == {k \in 0..n : Walks(s, t, k, f[k])}
<1>1. /\ f \in [0..n -> Seq(C)] /\ f[0] = s /\ n \in Nat
      /\ \A k \in 1..n : f[k] = RemoveTurn(t, f[k - 1], k)
      /\ SXStringRemoveOcurrencesOfCStrings(s, t) = f[n]
  BY RemovingIs
<1> HIDE DEF f
<1>2. Cuttable(s, t)
  BY ApartIsCuttable
<1>3. 0 \in S
  <2>1. 1 \in 1..N /\ N - 1 \in Nat
    BY PiecesNumber
  <2>2. PieceFrom(s, t, 1) = 0 /\ Shift(t, 1) = 0
    BY ShiftIs DEF PieceFrom
  <2>3. Shrunk(s, t, 1) = s
    <3>1. Part(s, 0, Len(s)) = s
      BY PartAll
    <3>2. <<>> \o s = s
      BY ConcatEmptySeq
    <3>3. QED
      BY <2>2, <3>1, <3>2 DEF Shrunk
  <2>4. PieceTo(s, t, 1) \in Nat
    BY <2>1, PieceEnds
  <2>5. WalksIn(s, t, 0, f[0], 1)
    BY <1>1, <2>2, <2>3, <2>4 DEF WalksIn
  <2>6. Walks(s, t, 0, f[0])
    BY <2>1, <2>5 DEF Walks
  <2>7. QED
    BY <1>1, <2>6
<1>4. ASSUME NEW k \in 1..n, k - 1 \in S PROVE k \in S
  <2> DEFINE str == f[k - 1]
  <2>1. str \in Seq(C) /\ f[k] = RemoveTurn(t, str, k) /\ k \in 0..n /\ k \in Nat /\ k >= 1
    BY <1>1
  <2>2. PICK i \in 1..N : WalksIn(s, t, k - 1, str, i)
    BY <1>4 DEF Walks
  <2> HIDE DEF str
  <2>3. Walks(s, t, k, RemoveTurn(t, str, k))
    BY <2>1, <2>2, TurnWalks
  <2>4. QED
    BY <2>1, <2>3
<1>5. Walks(s, t, n, f[n])
  <2>1. n \in Nat
    BY <1>1
  <2> HIDE DEF S, n
  <2>2. 0..n \subseteq S
    BY <2>1, <1>3, <1>4, UpTo
  <2>3. n \in S
    BY <2>1, <2>2
  <2>4. QED
    BY <2>3 DEF S
<1>6. PICK i \in 1..N : WalksIn(s, t, n, f[n], i)
  BY <1>5 DEF Walks
<1>7. i = N
  <2>1. Shift(t, i) \in Int /\ Shift(t, i) <= 0
    BY <1>2, ShrunkParts
  <2>2. i # N => n - Shift(t, i) <= PieceTo(s, t, i)
    BY <1>6 DEF WalksIn
  <2>3. i # N => PieceTo(s, t, i) = SXStringSubCStringLocations(s, t)[i]
    BY PieceNext
  <2>4. i # N => i \in 1..Len(SXStringSubCStringLocations(s, t))
    <3>1. N - 1 = Len(SXStringSubCStringLocations(s, t)) /\ N \in Nat
      BY PiecesNumber
    <3> HIDE DEF N
    <3>2. QED
      BY <3>1
  <2>5. i # N => PieceTo(s, t, i) \in Nat /\ PieceTo(s, t, i) < n
    BY <2>3, <2>4, LocationIs
  <2>6. QED
    BY <1>1, <2>1, <2>2, <2>5
<1>8. f[n] = Pasted(s, t, <<>>, N)
  <2> DEFINE v == Part(s, PieceFrom(s, t, N), Len(s))
  <2>1. f[n] = Shrunk(s, t, N)
    BY <1>6, <1>7 DEF WalksIn
  <2>2. PieceTo(s, t, N) = Len(s)
    BY PiecesNumber DEF PieceTo
  <2>3. CASE N = 1
    <3>1. PieceFrom(s, t, 1) = 0
      BY DEF PieceFrom
    <3>2. <<>> \in Seq(C)
      OBVIOUS
    <3>3. \A r \in Seq(C) : Pasted(s, t, r, 1) = Part(s, 0, PieceTo(s, t, 1))
      BY <1>2, PastedIs
    <3>4. Pasted(s, t, <<>>, 1) = Part(s, 0, PieceTo(s, t, 1))
      BY <3>2, <3>3, Zenon
    <3>5. Part(s, 0, Len(s)) = s
      BY PartAll
    <3>6. <<>> \o s = s
      BY ConcatEmptySeq
    <3>7. QED
      BY <2>1, <2>2, <2>3, <3>1, <3>4, <3>5, <3>6 DEF Shrunk
  <2>4. CASE N # 1
    <3> DEFINE j == N - 1
    <3>1. j \in 1..N /\ j # N /\ j + 1 = N
      <4>1. N \in Nat /\ N \in 1..N
        BY PiecesNumber
      <4> HIDE DEF N
      <4>2. QED
        BY <2>4, <4>1
    <3> HIDE DEF j
    <3>2. \A r \in Seq(C) : Pasted(s, t, r, j + 1)
            = Pasted(s, t, r, j) \o r \o Part(s, PieceFrom(s, t, j + 1), PieceTo(s, t, j + 1))
      <4>1. TAKE r \in Seq(C)
      <4>2. QED
        BY <1>2, <3>1, PastedIs
    <3>3. <<>> \in Seq(C)
      OBVIOUS
    <3>4. Pasted(s, t, <<>>, N) = Pasted(s, t, <<>>, j) \o <<>> \o v
      BY <2>2, <3>1, <3>2, <3>3
    <3>5. Pasted(s, t, <<>>, j) \in Seq(C)
      BY <1>2, <3>1, PastedShortLength
    <3>6. Pasted(s, t, <<>>, j) \o <<>> = Pasted(s, t, <<>>, j)
      BY <3>5, ConcatEmptySeq
    <3>7. f[n] = Pasted(s, t, <<>>, j) \o v
      BY <2>1, <2>4, Zenon DEF Shrunk, j
    <3>8. QED
      BY <3>4, <3>6, <3>7, Zenon
  <2>5. QED
    BY <2>3, <2>4
<1>9. Joined(SXStringSubStringsTrimmedByString(s, t), <<>>) = Pasted(s, t, <<>>, N)
  <2>1. <<>> \in Seq(C)
    OBVIOUS
  <2>2. \A r \in Seq(C) : Joined(SXStringSubStringsTrimmedByString(s, t), r) = Pasted(s, t, r, N)
    BY <1>2, PastedIs
  <2>3. QED
    BY <2>1, <2>2, Zenon
<1>10. QED
  BY <1>1, <1>8, <1>9

-----------------------------------------------------------------------------
(* Joining, comparing and vectors.                                         *)

Objects(C) == {o \in [length : Nat, chars : Seq(C)] : o.length <= Len(o.chars)}

\* Joining leaves the length and appends behind it.
LEMMA JoinTurnType ==
    ASSUME NEW C, NEW o \in Objects(C), NEW p \in Seq(C)
    PROVE  /\ SXStringJoinCString(o, p) \in Objects(C)
           /\ SXStringJoinCString(o, p).length = o.length
           /\ SXStringJoinCString(o, p).chars = SubSeq(o.chars, 1, o.length) \o p
<1> DEFINE h == SubSeq(o.chars, 1, o.length)
           chars == h \o p
           w == [o EXCEPT !.chars = chars]
<1>1. /\ o \in [length : Nat, chars : Seq(C)]
      /\ o.length \in Nat /\ o.chars \in Seq(C) /\ o.length <= Len(o.chars)
  BY DEF Objects
<1>2. h \in Seq(C) /\ Len(h) = o.length
  <2> DEFINE c == o.chars  l == o.length
  <2>1. c \in Seq(C) /\ l \in Nat /\ l <= Len(c) /\ 0 \in Nat /\ 0 <= l /\ h = Part(c, 0, l)
    BY <1>1 DEF Part
  <2> HIDE DEF c, l, h
  <2>2. Part(c, 0, l) \in Seq(C) /\ Len(Part(c, 0, l)) = l - 0
    BY <2>1, PartIs
  <2>3. QED
    BY <2>1, <2>2 DEF l
<1> HIDE DEF h
<1>3. chars \in Seq(C) /\ Len(chars) = Len(h) + Len(p) /\ Len(p) \in Nat
  BY <1>2, ConcatProperties
<1>4. SXStringJoinCString(o, p) = w
  BY DEF SXStringJoinCString, h
<1> HIDE DEF chars
<1>5. w \in [length : Nat, chars : Seq(C)] /\ w.length = o.length /\ w.chars = chars
  BY <1>1, <1>3
<1> HIDE DEF w
<1>6. w \in Objects(C)
  <2>1. w.length <= Len(w.chars)
    BY <1>1, <1>2, <1>3, <1>5
  <2>2. QED
    BY <1>5, <2>1 DEF Objects
<1>7. QED
  BY <1>4, <1>5, <1>6 DEF chars, h

\* What the turns of SXStringByJoiningSubStrings leave.
Gathering(pieces) ==
    LET after[k \in 0..Len(pieces) - 1] ==
            IF k = 0 THEN Object(pieces[1]) ELSE SXStringJoinCString(after[k - 1], pieces[k + 1])
    IN  after

\* The loop that joins substrings, turn by turn (SXString.c:71-85).
LEMMA GatheringIs ==
    ASSUME NEW C, NEW p \in Seq(Seq(C)), p # <<>>
    PROVE  /\ Gathering(p) \in [0..Len(p) - 1 -> Objects(C)] /\ Gathering(p)[0] = Object(p[1])
           /\ \A k \in 1..Len(p) - 1 :
                Gathering(p)[k] = SXStringJoinCString(Gathering(p)[k - 1], p[k + 1])
           /\ SXStringByJoiningSubStrings(p) = Gathering(p)[Len(p) - 1]
<1> DEFINE A == Objects(C)
           n == Len(p) - 1
           a == Object(p[1])
           step(x, k) == SXStringJoinCString(x, p[k + 1])
           G == [k \in 1..n |-> [x \in A |-> step(x, k)]]
           f == Turns(n, a, G)
           g == Gathering(p)
<1>1. n \in Nat /\ a \in A
  <2>1. n \in Nat /\ p[1] \in Seq(C)
    OBVIOUS
  <2>2. Len(p[1]) \in Nat
    BY <2>1
  <2>3. QED
    BY <2>1, <2>2 DEF Object, Objects
<1>2. \A x \in A, k \in 1..n : step(x, k) \in A
  <2>1. \A k \in 1..n : k + 1 \in 1..Len(p)
    OBVIOUS
  <2>2. \A k \in 1..n : p[k + 1] \in Seq(C)
    BY <2>1, ElementOfSeq
  <2>3. QED
    BY <2>2, JoinTurnType
<1>3. /\ g = CHOOSE after : after = [k \in 0..n |-> IF k = 0 THEN a ELSE step(after[k - 1], k)]
      /\ SXStringByJoiningSubStrings(p) = g[n]
  BY DEF Gathering, SXStringByJoiningSubStrings, Loop
<1> HIDE DEF A, n, a, step, g
<1>4. G \in [1..n -> [A -> A]]
  BY <1>2
<1>5. \A k \in 1..n, x \in A : G[k][x] = step(x, k)
  OBVIOUS
<1> HIDE DEF G
<1>6. AreTurns(f, n, A, a, G)
  BY <1>1, <1>4, TurnsRun, Zenon
<1> HIDE DEF f
<1>7. ASSUME NEW k \in 1..n PROVE f[k - 1] \in A /\ f[k] = step(f[k - 1], k)
  <2>1. k \in 1..n /\ k - 1 \in 0..n
    BY <1>1
  <2>2. f[k - 1] \in A /\ f[k] = G[k][f[k - 1]]
    BY <1>6, <2>1 DEF AreTurns
  <2>3. QED
    BY <1>5, <2>1, <2>2
<1>8. f = [k \in 0..n |-> IF k = 0 THEN a ELSE step(f[k - 1], k)]
  BY <1>6, <1>7 DEF AreTurns
<1>9. g = [k \in 0..n |-> IF k = 0 THEN a ELSE step(g[k - 1], k)]
  BY <1>3, <1>8
<1> DEFINE T == {k \in 0..n : g[k] \in A}
<1>10. 0 \in T /\ \A k \in 1..n : k - 1 \in T => k \in T
  BY <1>1, <1>2, <1>9
<1> HIDE DEF T
<1>11. 0..n \subseteq T
  BY <1>1, <1>10, UpTo
<1>12. g \in [0..n -> A] /\ g[0] = a /\ \A k \in 1..n : g[k] = step(g[k - 1], k)
  BY <1>1, <1>9, <1>11 DEF T
<1>13. QED
  BY <1>3, <1>12 DEF A, n, a, step, g

\* What JoinTwo says, of one string and one mark.
LEMMA JoinIsSound ==
    ASSUME NEW C, NEW s \in Seq(C), NEW t \in Seq(C), Cuttable(s, t)
    PROVE  LET pieces == SXStringSubStringsTrimmedByString(s, t)
               whole  == SXStringByJoiningSubStrings(pieces)
           IN  /\ whole.length = Len(Head(pieces))
               /\ Len(pieces) = 2 => whole.chars = Joined(pieces, <<>>)
<1> DEFINE p == SXStringSubStringsTrimmedByString(s, t)
           n == Len(p) - 1
           f == Gathering(p)
           S == {k \in 0..n : f[k].length = Len(p[1])}
<1>1. p \in Seq(Seq(C)) /\ Len(p) = Pieces(s, t)
  BY TrimmedIs
<1>2. Pieces(s, t) \in 1..Pieces(s, t)
  BY PiecesNumber
<1> HIDE DEF p
<1>3. p # <<>> /\ n \in Nat
  BY <1>1, <1>2
<1>4. /\ f \in [0..n -> Objects(C)] /\ f[0] = Object(p[1])
      /\ \A k \in 1..n : f[k] = SXStringJoinCString(f[k - 1], p[k + 1])
      /\ SXStringByJoiningSubStrings(p) = f[n]
  BY <1>1, <1>3, GatheringIs
<1> HIDE DEF f
<1>5. \A k \in 1..n : p[k + 1] \in Seq(C) /\ f[k - 1] \in Objects(C)
  <2>1. \A k \in 1..n : k + 1 \in 1..Len(p) /\ k - 1 \in 0..n
    BY <1>1
  <2>2. \A k \in 1..n : p[k + 1] \in Seq(C)
    BY <1>1, <2>1, ElementOfSeq
  <2>3. QED
    BY <1>4, <2>1, <2>2
<1>6. f[0].length = Len(p[1]) /\ f[0].chars = p[1]
  BY <1>4 DEF Object
<1>7. ASSUME NEW k \in 1..n, k - 1 \in S PROVE k \in S
  <2>1. f[k].length = f[k - 1].length
    <3> DEFINE o == f[k - 1]  q == p[k + 1]
    <3>1. o \in Objects(C) /\ q \in Seq(C) /\ f[k] = SXStringJoinCString(o, q)
      BY <1>4, <1>5
    <3> HIDE DEF o, q
    <3>2. SXStringJoinCString(o, q).length = o.length
      BY <3>1, JoinTurnType
    <3>3. QED
      BY <3>1, <3>2 DEF o
  <2>2. k \in 0..n
    OBVIOUS
  <2>3. QED
    BY <1>7, <2>1, <2>2
<1>8. f[n].length = Len(p[1])
  <2>1. 0 \in S
    BY <1>3, <1>6
  <2> HIDE DEF S, n
  <2>2. 0..n \subseteq S
    BY <2>1, <1>3, <1>7, UpTo
  <2>3. n \in S
    BY <1>3, <2>2
  <2>4. QED
    BY <2>3 DEF S
<1>9. ASSUME Len(p) = 2 PROVE f[n].chars = Joined(p, <<>>)
  <2>1. n = 1 /\ 1 \in 1..n /\ p[1] \in Seq(C) /\ p[2] \in Seq(C)
    <3>1. n = 1 /\ 1 \in 1..n /\ 1 \in 1..Len(p) /\ 2 \in 1..Len(p)
      BY <1>9
    <3>2. p[1] \in Seq(C) /\ p[2] \in Seq(C)
      BY <1>1, <3>1, ElementOfSeq
    <3>3. QED
      BY <3>1, <3>2
  <2>2. f[1] = SXStringJoinCString(f[0], p[2])
    <3>1. f[1] = SXStringJoinCString(f[1 - 1], p[1 + 1])
      BY <1>4, <2>1
    <3>2. QED
      BY <3>1
  <2>3. f[1].chars = SubSeq(f[0].chars, 1, f[0].length) \o p[2]
    <3>1. f[0] \in Objects(C)
      BY <1>5, <2>1
    <3>2. QED
      BY <2>1, <2>2, <3>1, JoinTurnType
  <2>4. SubSeq(p[1], 1, Len(p[1])) = p[1]
    BY <2>1, SubSeqFull
  <2>5. f[1].chars = p[1] \o p[2]
    BY <1>6, <2>3, <2>4
  <2>6. Joined(p, <<>>) = p[1] \o <<>> \o p[2]
    <3>1. <<>> \in Seq(C)
      OBVIOUS
    <3>2. ASSUME NEW r \in Seq(C) PROVE Joined(p, r) = p[1] \o r \o p[2]
      <4> DEFINE J == Joining(p, r)
      <4>1. /\ J[0] = p[1] /\ Joined(p, r) = J[Len(p) - 1]
            /\ \A k \in 1..Len(p) - 1 : J[k] = J[k - 1] \o r \o p[k + 1]
        BY <1>1, <1>3, JoiningIs
      <4> HIDE DEF J
      <4>2. Len(p) - 1 = 1 /\ 1 \in 1..Len(p) - 1 /\ 1 - 1 = 0 /\ 1 + 1 = 2
        BY <2>1
      <4>3. J[1] = J[1 - 1] \o r \o p[1 + 1]
        BY <4>1, <4>2, Zenon
      <4>4. J[1] = J[0] \o r \o p[2]
        BY <4>2, <4>3, Zenon
      <4>5. QED
        BY <4>1, <4>2, <4>4, Zenon
    <3>3. QED
      BY <3>1, <3>2, Zenon
  <2>7. p[1] \o <<>> = p[1]
    BY <2>1, ConcatEmptySeq
  <2>8. QED
    BY <2>1, <2>5, <2>6, <2>7
<1>10. Head(p) = p[1]
  BY <1>1, <1>3
<1>11. QED
  BY <1>4, <1>8, <1>9, <1>10 DEF p

\* What ContainsSound says, of two strings (SXString.c:177-184).
LEMMA ContainsIsSound ==
    ASSUME NEW C, NEW s \in Seq(C), NEW t \in Seq(C)
    PROVE  /\ SXStringContainsCString(s, t) = "yes" => MatchesAt(s, 0, t)
           /\ SXStringContainsCString(s, t) = "loops" => Len(t) > Len(s)
<1>1. Len(s) \in Nat /\ Len(t) \in Nat
  OBVIOUS
<1>2. s = t => MatchesAt(s, 0, t)
  BY PartAll DEF MatchesAt, Part
<1>3. SXStringContainsCString(s, t) = "yes" => s = t
  BY <1>1 DEF SXStringContainsCString
<1>4. SXStringContainsCString(s, t) = "loops" => Len(t) > Len(s)
  BY <1>1 DEF SXStringContainsCString
<1>5. QED
  BY <1>2, <1>3, <1>4

\* Vectors of the numbers up to size of which those above count have been given up.
Vectors(size) ==
    {v \in [count : Nat, mem : {[i \in 1..size |-> i]}, given : Seq(Nat)] :
        v.count + Len(v.given) = size /\ ToSet(v.given) = v.count + 1..size}

\* The items of a concatenation are those of its parts.
LEMMA SetOfConcat ==
    ASSUME NEW C, NEW u \in Seq(C), NEW v \in Seq(C)
    PROVE  ToSet(u \o v) = ToSet(u) \cup ToSet(v)
<1> DEFINE w == u \o v
<1>1. /\ w \in Seq(C) /\ Len(w) = Len(u) + Len(v) /\ Len(u) \in Nat /\ Len(v) \in Nat
      /\ \A x \in 1..Len(u) + Len(v) : w[x] = IF x <= Len(u) THEN u[x] ELSE v[x - Len(u)]
  BY ConcatProperties
<1> HIDE DEF w
<1>2. DOMAIN w = 1..Len(u) + Len(v) /\ DOMAIN u = 1..Len(u) /\ DOMAIN v = 1..Len(v)
  BY <1>1
<1>3. ASSUME NEW x \in 1..Len(u) + Len(v) PROVE w[x] \in ToSet(u) \cup ToSet(v)
  <2>1. CASE x <= Len(u)
    <3>1. x \in 1..Len(u) /\ w[x] = u[x]
      BY <1>1, <2>1
    <3>2. QED
      BY <1>2, <3>1 DEF ToSet
  <2>2. CASE ~(x <= Len(u))
    <3>1. x - Len(u) \in 1..Len(v) /\ w[x] = v[x - Len(u)]
      BY <1>1, <2>2
    <3>2. QED
      BY <1>2, <3>1 DEF ToSet
  <2>3. QED
    BY <2>1, <2>2
<1>4. ASSUME NEW x \in 1..Len(u) PROVE u[x] \in ToSet(w)
  <2>1. x \in 1..Len(u) + Len(v) /\ w[x] = u[x]
    BY <1>1
  <2>2. QED
    BY <1>2, <2>1 DEF ToSet
<1>5. ASSUME NEW x \in 1..Len(v) PROVE v[x] \in ToSet(w)
  <2> DEFINE y == Len(u) + x
  <2>1. y \in 1..Len(u) + Len(v) /\ ~(y <= Len(u)) /\ y - Len(u) = x
    BY <1>1
  <2> HIDE DEF y
  <2>2. w[y] = v[x]
    BY <1>1, <2>1
  <2>3. QED
    BY <1>2, <2>1, <2>2 DEF ToSet
<1>6. ToSet(w) \subseteq ToSet(u) \cup ToSet(v)
  BY <1>2, <1>3 DEF ToSet
<1>7. ToSet(u) \cup ToSet(v) \subseteq ToSet(w)
  BY <1>2, <1>4, <1>5 DEF ToSet
<1>8. QED
  BY <1>6, <1>7 DEF w

\* Popping hands out the last item the vector counts (SXVector.c:46-89).
LEMMA PopbackKeeps ==
    ASSUME NEW size \in Nat, NEW v \in Vectors(size)
    PROVE  SXVectorPopback(v) \in Vectors(size)
<1> DEFINE mem == [i \in 1..size |-> i]
           x == v.mem[v.count]
           given == Append(v.given, x)
           w == [v EXCEPT !.count = v.count - 1, !.given = given]
<1>1. /\ v \in [count : Nat, mem : {mem}, given : Seq(Nat)]
      /\ v.count + Len(v.given) = size /\ ToSet(v.given) = v.count + 1..size
  BY DEF Vectors
<1>2. v.count \in Nat /\ v.mem = mem /\ v.given \in Seq(Nat) /\ Len(v.given) \in Nat
  BY <1>1
<1>3. CASE v.count <= 0
  BY <1>3 DEF SXVectorPopback
<1>4. CASE v.count > 0
  <2>1. SXVectorPopback(v) = w
    BY <1>2, <1>4 DEF SXVectorPopback
  <2>2. x = v.count
    BY <1>1, <1>2, <1>4
  <2> HIDE DEF x, mem
  <2>3. given \in Seq(Nat) /\ Len(given) = Len(v.given) + 1 /\ given = v.given \o <<x>>
    BY <1>2, <2>2, AppendProperties, AppendIsConcat
  <2>4. ToSet(<<x>>) = {x} /\ <<x>> \in Seq(Nat)
    BY <1>2, <2>2 DEF ToSet
  <2>5. ToSet(given) = ToSet(v.given) \cup {x}
    <3> DEFINE g == v.given  y == <<x>>
    <3>1. g \in Seq(Nat) /\ y \in Seq(Nat)
      BY <1>2, <2>4
    <3> HIDE DEF g, y
    <3>2. ToSet(g \o y) = ToSet(g) \cup ToSet(y)
      BY <3>1, SetOfConcat
    <3>3. QED
      BY <2>3, <2>4, <3>2 DEF g, y
  <2>6. (v.count + 1..size) \cup {v.count} = (v.count - 1) + 1..size
    BY <1>1, <1>2, <1>4
  <2> HIDE DEF given
  <2>7. /\ w \in [count : Nat, mem : {mem}, given : Seq(Nat)]
        /\ w.count = v.count - 1 /\ w.given = given
    <3>1. v.count - 1 \in Nat
      BY <1>2, <1>4
    <3>2. w.count = v.count - 1 /\ w.given = given
      BY <1>1
    <3>3. w \in [count : Nat, mem : {mem}, given : Seq(Nat)]
      BY <1>1, <2>3, <3>1
    <3>4. QED
      BY <3>2, <3>3
  <2> HIDE DEF w
  <2>8. w.count + Len(w.given) = size /\ ToSet(w.given) = w.count + 1..size
    <3>1. w.count + Len(w.given) = size
      BY <1>1, <1>2, <2>3, <2>7
    <3>2. ToSet(w.given) = w.count + 1..size
      BY <1>1, <2>2, <2>5, <2>6, <2>7, Zenon
    <3>3. QED
      BY <3>1, <3>2
  <2>9. w \in Vectors(size)
    BY <2>7, <2>8 DEF Vectors, mem
  <2>10. QED
    BY <2>1, <2>9
<1>5. QED
  BY <1>2, <1>3, <1>4

\* What remains after each number of pops.
PoppedFrom(size) ==
    LET Popped[k \in 0..2] ==
            IF k = 0 THEN SXCreateVectorWithArray([i \in 1..size |-> i])
                     ELSE SXVectorPopback(Popped[k - 1])
    IN  Popped

\* ... and so does popping again.
LEMMA PoppedIs ==
    ASSUME NEW size \in Nat, NEW pops \in 0..2
    PROVE  PoppedFrom(size)[pops] \in Vectors(size)
<1> DEFINE A == Vectors(size)
           n == 2
           mem == [i \in 1..size |-> i]
           a == SXCreateVectorWithArray(mem)
           step(x, k) == SXVectorPopback(x)
           G == [k \in 1..n |-> [x \in A |-> step(x, k)]]
           f == Turns(n, a, G)
           g == PoppedFrom(size)
<1>1. n \in Nat /\ a \in A
  <2>1. mem \in Seq(Nat) /\ Len(mem) = size
    OBVIOUS
  <2>2. ToSet(<<>>) = {} /\ size + 1..size = {} /\ <<>> \in Seq(Nat) /\ Len(<<>>) = 0
    BY DEF ToSet
  <2>3. a \in [count : Nat, mem : {mem}, given : Seq(Nat)] /\ a.count = size /\ a.given = <<>>
    BY <2>1, <2>2 DEF SXCreateVectorWithArray
  <2> HIDE DEF a
  <2>4. a \in A
    <3>1. a.count + Len(a.given) = size
      BY <2>2, <2>3
    <3>2. ToSet(a.given) = a.count + 1..size
      BY <2>2, <2>3, Zenon
    <3>3. QED
      BY <2>3, <3>1, <3>2 DEF Vectors
  <2>5. QED
    BY <2>4 DEF n
<1>2. \A x \in A, k \in 1..n : step(x, k) \in A
  BY PopbackKeeps
<1>3. g = CHOOSE after : after = [k \in 0..n |-> IF k = 0 THEN a ELSE step(after[k - 1], k)]
  BY DEF PoppedFrom
<1> HIDE DEF A, n, a, step, g
<1>4. G \in [1..n -> [A -> A]]
  BY <1>2
<1>5. \A k \in 1..n, x \in A : G[k][x] = step(x, k)
  OBVIOUS
<1> HIDE DEF G
<1>6. AreTurns(f, n, A, a, G)
  BY <1>1, <1>4, TurnsRun, Zenon
<1> HIDE DEF f
<1>7. ASSUME NEW k \in 1..n PROVE f[k - 1] \in A /\ f[k] = step(f[k - 1], k)
  BY <1>1, <1>5, <1>6 DEF AreTurns
<1>8. f = [k \in 0..n |-> IF k = 0 THEN a ELSE step(f[k - 1], k)]
  BY <1>6, <1>7 DEF AreTurns
<1>9. g = [k \in 0..n |-> IF k = 0 THEN a ELSE step(g[k - 1], k)]
  BY <1>3, <1>8
<1> DEFINE T == {k \in 0..n : g[k] \in A}
<1>10. 0 \in T /\ \A k \in 1..n : k - 1 \in T => k \in T
  BY <1>1, <1>2, <1>9
<1> HIDE DEF T
<1>11. 0..n \subseteq T
  BY <1>1, <1>10, UpTo
<1>12. QED
  BY <1>11 DEF T, A, n, g

\* What ItemsGivenOnce says, in every case it names (SXVector.c:46-89).
LEMMA ItemsAreGivenOnce == ItemsGivenOnce
<1> SUFFICES ASSUME NEW size \in 0..3, NEW pops \in 0..2, NEW n \in 0..3
             PROVE  LET resized == SXVectorResize(PoppedFrom(size)[pops], n)
                    IN  /\ SXFreeVectorDefined(resized) <=> n >= resized.count
                        /\ SXFreeVectorDefined(resized) =>
                             /\ ToSet(SXFreeVector(resized)) = 1..size
                             /\ Len(SXFreeVector(resized)) = size
  BY DEF ItemsGivenOnce, PoppedFrom
<1> DEFINE v == PoppedFrom(size)[pops]
           mem == [i \in 1..size |-> i]
           k == IF n < Len(v.mem) THEN n ELSE Len(v.mem)
           kept == SubSeq(v.mem, 1, k)
           w == SXVectorResize(v, n)
<1>1. v \in Vectors(size) /\ size \in Nat
  BY PoppedIs
<1> HIDE DEF v
<1>2. /\ v \in [count : Nat, mem : {mem}, given : Seq(Nat)]
      /\ v.count + Len(v.given) = size /\ ToSet(v.given) = v.count + 1..size
  BY <1>1 DEF Vectors
<1>3. /\ v.count \in Nat /\ v.mem = mem /\ v.given \in Seq(Nat) /\ Len(v.given) \in Nat
      /\ v.count <= size
  BY <1>2
<1>4. mem \in Seq(Nat) /\ Len(mem) = size /\ \A i \in 1..size : mem[i] = i
  BY <1>1
<1> HIDE DEF mem
<1>5. k \in Nat /\ k <= size /\ (v.count <= k <=> v.count <= n)
  BY <1>3, <1>4
<1>6. w.count = v.count /\ w.mem = kept /\ w.given = v.given
  <2>1. w = [v EXCEPT !.mem = kept]
    BY DEF SXVectorResize
  <2> HIDE DEF kept
  <2>2. QED
    BY <1>2, <2>1
<1> HIDE DEF w, k
<1>7. kept \in Seq(Nat) /\ Len(kept) = k /\ \A i \in 1..k : kept[i] = i
  <2>1. 0 \in Nat /\ 0 <= k /\ k <= Len(mem) /\ kept = Part(mem, 0, k)
    BY <1>3, <1>4, <1>5 DEF Part
  <2>2. /\ Part(mem, 0, k) \in Seq(Nat) /\ Len(Part(mem, 0, k)) = k - 0
        /\ \A i \in 1..k - 0 : Part(mem, 0, k)[i] = mem[0 + i]
    <3>1. IsPart(Part(mem, 0, k), Nat, mem, 0, k)
      BY <1>4, <1>5, <2>1, PartIsPart, Zenon
    <3>2. QED
      BY <3>1 DEF IsPart
  <2> HIDE DEF kept
  <2>3. \A i \in 1..k : i \in 1..size /\ 0 + i = i
    BY <1>1, <1>5
  <2>4. QED
    BY <1>4, <1>5, <2>1, <2>2, <2>3
<1> HIDE DEF kept
<1>8. SXFreeVectorDefined(w) <=> n >= w.count
  BY <1>3, <1>5, <1>6, <1>7 DEF SXFreeVectorDefined
<1>9. ASSUME v.count <= k
      PROVE  ToSet(SXFreeVector(w)) = 1..size /\ Len(SXFreeVector(w)) = size
  <2> DEFINE rest == SubSeq(kept, 1, v.count)
  <2>1. 0 \in Nat /\ 0 <= v.count /\ v.count <= Len(kept) /\ rest = Part(kept, 0, v.count)
    BY <1>3, <1>7, <1>9 DEF Part
  <2>2. /\ Part(kept, 0, v.count) \in Seq(Nat) /\ Len(Part(kept, 0, v.count)) = v.count - 0
        /\ \A i \in 1..v.count - 0 : Part(kept, 0, v.count)[i] = kept[0 + i]
    <3> DEFINE c == v.count
    <3>1. c \in Nat /\ 0 <= c /\ c <= Len(kept)
      BY <1>3, <2>1
    <3> HIDE DEF c
    <3>2. /\ Part(kept, 0, c) \in Seq(Nat) /\ Len(Part(kept, 0, c)) = c - 0
          /\ \A i \in 1..c - 0 : Part(kept, 0, c)[i] = kept[0 + i]
      <4>1. IsPart(Part(kept, 0, c), Nat, kept, 0, c)
        BY <1>7, <2>1, <3>1, PartIsPart, Zenon
      <4>2. QED
        BY <4>1 DEF IsPart
    <3>3. QED
      BY <3>2 DEF c
  <2> HIDE DEF rest
  <2>3. rest \in Seq(Nat) /\ Len(rest) = v.count /\ \A i \in 1..v.count : rest[i] = i
    <3>1. \A i \in 1..v.count : i \in 1..k /\ 0 + i = i
      BY <1>3, <1>5, <1>9
    <3>2. v.count - 0 = v.count
      BY <1>3
    <3>3. QED
      BY <1>7, <2>1, <2>2, <3>1, <3>2
  <2>4. ToSet(rest) = 1..v.count
    <3>1. DOMAIN rest = 1..v.count
      BY <2>3
    <3>2. QED
      BY <2>3, <3>1 DEF ToSet
  <2>5. SXFreeVector(w) = v.given \o rest
    BY <1>6 DEF SXFreeVector, rest
  <2>6. ToSet(v.given \o rest) = ToSet(v.given) \cup ToSet(rest)
    BY <1>3, <2>3, SetOfConcat
  <2>7. (v.count + 1..size) \cup 1..v.count = 1..size
    BY <1>1, <1>3
  <2>8. Len(v.given \o rest) = Len(v.given) + Len(rest)
    BY <1>3, <2>3, ConcatProperties
  <2>9. QED
    BY <1>2, <1>3, <2>3, <2>4, <2>5, <2>6, <2>7, <2>8
<1>10. SXFreeVectorDefined(w) => v.count <= k
  BY <1>6, <1>7 DEF SXFreeVectorDefined
<1>11. QED
  BY <1>8, <1>9, <1>10 DEF w, v

-----------------------------------------------------------------------------
(* The segments of the Swift port.                                         *)

\* A whole separator, or less than one and the end of the data.
Ends(d, b, e) ==
    MatchesAt(d, e, b) \/ (Len(d) - e < Len(b) /\ IsPrefix(SubSeq(d, e + 1, Len(d)), b))

\* What the search returns: the first separator from an offset on, or an end that
\* foreign bytes may complete (Helper.swift:36-52).
LEMMA FoundIs ==
    ASSUME NEW C, NEW d \in Seq(C), NEW b \in Seq(C), b # <<>>, NEW from \in Nat
    PROVE  /\ findBytes(d, b, from) \ {-1} = {} <=> from + Len(b) > Len(d)
           /\ \A e \in findBytes(d, b, from) \ {-1} :
                /\ from + Len(b) <= Len(d) /\ e \in from..Len(d)
                /\ \A i \in from..e - 1 : ~MatchesAt(d, i, b)
                /\ Ends(d, b, e)
<1> DEFINE T == Len(d)
           m == Len(b)
           found == {i \in from..T - m : MatchesAt(d, i, b)}
           late == {i \in from..T : i = T \/ MayMatchAt(d, i, b)}
<1>1. T \in Nat /\ m \in Nat /\ m > 0 /\ (d = <<>> => T = 0)
  OBVIOUS
<1>2. CASE from + m > T
  <2>1. findBytes(d, b, from) = {-1}
    BY <1>1, <1>2 DEF findBytes
  <2>2. QED
    BY <1>2, <2>1
<1>3. CASE from + m <= T
  <2>1. ~(d = <<>> \/ m + from > T) /\ m + from <= T
    BY <1>1, <1>3
  <2>2. CASE found # {}
    <3> DEFINE e == Min(found)
    <3>1. findBytes(d, b, from) = {e}
      BY <2>1, <2>2 DEF findBytes
    <3>2. e \in found /\ \A i \in found : e <= i
      <4>1. found \subseteq Nat
        BY <1>1
      <4> HIDE DEF found
      <4>2. QED
        BY <2>2, <4>1, LeastOf
    <3> HIDE DEF e
    <3>3. e \in from..T /\ MatchesAt(d, e, b) /\ e # -1
      BY <1>1, <3>2
    <3>4. \A i \in from..e - 1 : ~MatchesAt(d, i, b)
      BY <1>1, <3>2
    <3>5. QED
      BY <1>3, <3>1, <3>3, <3>4 DEF Ends
  <2>3. CASE found = {}
    <3>1. findBytes(d, b, from) = late
      BY <2>1, <2>3 DEF findBytes
    <3>2. T \in late /\ -1 \notin late
      BY <1>1, <1>3
    <3>3. ASSUME NEW e \in late PROVE Ends(d, b, e)
      <4>1. CASE e = T
        <5>1. SubSeq(d, T + 1, T) = <<>>
          BY <1>1, PartNone DEF Part
        <5>2. IsPrefix(<<>>, b)
          BY <1>1 DEF IsPrefix
        <5>3. T - T < m
          BY <1>1
        <5>4. Ends(d, b, T)
          BY <5>1, <5>2, <5>3, Zenon DEF Ends
        <5>5. QED
          BY <4>1, <5>4
      <4>2. CASE MayMatchAt(d, e, b)
        BY <4>2 DEF Ends, MayMatchAt
      <4>3. QED
        BY <4>1, <4>2
    <3>4. ASSUME NEW e \in late, NEW i \in from..e - 1 PROVE ~MatchesAt(d, i, b)
      <4>1. i \in from..T - m => ~MatchesAt(d, i, b)
        BY <2>3
      <4>2. i \notin from..T - m => i + m > T
        BY <1>1
      <4>3. i + m > T => ~MatchesAt(d, i, b)
        BY <1>1 DEF MatchesAt
      <4>4. QED
        BY <4>1, <4>2, <4>3
    <3>5. \A e \in late : e \in from..T
      OBVIOUS
    <3> HIDE DEF late
    <3>6. QED
      BY <1>3, <3>1, <3>2, <3>3, <3>4, <3>5
  <2>4. QED
    BY <2>2, <2>3
<1>4. QED
  BY <1>1, <1>2, <1>3

\* Every step goes on behind where it began, and not far behind the end.
LEMMA NextIsAhead ==
    ASSUME NEW C, NEW d \in Seq(C), NEW b \in Seq(C), b # <<>>, NEW from \in Nat,
           NEW n \in next(d, b, from)
    PROVE  n.nextOffset \in from + 1..Len(d) + Len(b)
<1>1. PICK e \in findBytes(d, b, from) \ {-1} :
        n = [val |-> SubSeq(d, from + 1, e), nextOffset |-> e + Len(b)]
  BY DEF next
<1>2. e \in from..Len(d)
  BY FoundIs
<1>3. n.nextOffset = e + Len(b) /\ Len(b) \in Nat /\ Len(b) > 0 /\ Len(d) \in Nat
  BY <1>1
<1>4. QED
  BY <1>2, <1>3

\* What may follow from a position, if f says so of the positions behind it.
Follows(d, b, f, from) ==
    IF next(d, b, from) = {} THEN {<<>>}
    ELSE UNION {{<<n.val>> \o vals : vals \in f[n.nextOffset]} : n \in next(d, b, from)}

\* It depends on the positions behind only.
LEMMA FollowsReadsAhead ==
    ASSUME NEW C, NEW d \in Seq(C), NEW b \in Seq(C), b # <<>>, NEW from \in Nat,
           NEW f, NEW g, \A x \in from + 1..Len(d) + Len(b) : f[x] = g[x]
    PROVE  Follows(d, b, f, from) = Follows(d, b, g, from)
<1> DEFINE X == next(d, b, from)
           F(n) == {<<n.val>> \o vals : vals \in f[n.nextOffset]}
           G(n) == {<<n.val>> \o vals : vals \in g[n.nextOffset]}
<1>1. \A n \in X : f[n.nextOffset] = g[n.nextOffset]
  BY NextIsAhead
<1>2. \A n \in X : F(n) = G(n)
  BY <1>1
<1>3. /\ Follows(d, b, f, from) = IF X = {} THEN {<<>>} ELSE UNION {F(n) : n \in X}
      /\ Follows(d, b, g, from) = IF X = {} THEN {<<>>} ELSE UNION {G(n) : n \in X}
  BY DEF Follows
<1> HIDE DEF X, F, G
<1>4. {F(n) : n \in X} = {G(n) : n \in X}
  BY <1>2
<1>5. QED
  BY <1>3, <1>4, Zenon

\* The function of findall.
Rests(d, b) ==
    LET Rest[from \in 0..Len(d) + Len(b)] ==
            IF next(d, b, from) = {} THEN {<<>>}
            ELSE UNION {{<<n.val>> \o vals : vals \in Rest[n.nextOffset]} : n \in next(d, b, from)}
    IN  Rest

\* The function of findall exists and is what its equation says: built from the end
\* of the data back, since every step goes on behind where it began.
LEMMA RestsAre ==
    ASSUME NEW C, NEW d \in Seq(C), NEW b \in Seq(C), b # <<>>
    PROVE  /\ \A from \in 0..Len(d) + Len(b) : Rests(d, b)[from] = Follows(d, b, Rests(d, b), from)
           /\ findall(d, b) = Rests(d, b)[0]
<1> DEFINE top == Len(d) + Len(b)
           Gives(f, low) == f = [x \in low..top |-> Follows(d, b, f, x)]
           S == {k \in 0..top : \E f : Gives(f, top - k)}
           g == Rests(d, b)
<1>1. top \in Nat
  OBVIOUS
<1>2. 0 \in S
  <2> DEFINE f == [x \in top..top |-> Follows(d, b, <<>>, x)]
  <2>1. ASSUME NEW x \in top..top PROVE Follows(d, b, <<>>, x) = Follows(d, b, f, x)
    <3>1. x \in Nat /\ x + 1..top = {}
      BY <1>1
    <3> HIDE DEF f
    <3>2. \A y \in x + 1..Len(d) + Len(b) : <<>>[y] = f[y]
      BY <3>1
    <3>3. QED
      BY <3>1, <3>2, FollowsReadsAhead
  <2>2. Gives(f, top)
    BY <2>1
  <2>3. top - 0 = top /\ 0 \in 0..top
    BY <1>1
  <2> HIDE DEF Gives, f
  <2>4. \E h : Gives(h, top - 0)
    BY <2>2, <2>3
  <2>5. QED
    BY <2>3, <2>4
<1>3. ASSUME NEW k \in 1..top, k - 1 \in S PROVE k \in S
  <2> DEFINE low == top - k
  <2>1. low \in Nat /\ top - (k - 1) = low + 1 /\ k \in 0..top
    BY <1>1
  <2>2. PICK f : Gives(f, low + 1)
    BY <1>3, <2>1
  <2> DEFINE h == [x \in low..top |-> IF x = low THEN Follows(d, b, f, low) ELSE f[x]]
  <2> HIDE DEF low
  <2>3. ASSUME NEW x \in low + 1..top
        PROVE  x \in low..top /\ h[x] = f[x] /\ f[x] = Follows(d, b, f, x)
    <3>1. x \in low..top /\ x # low
      BY <1>1, <2>1
    <3>2. h[x] = f[x]
      BY <3>1
    <3> HIDE DEF h, top
    <3>3. f[x] = Follows(d, b, f, x)
      BY <2>2
    <3>4. QED
      BY <3>1, <3>2, <3>3
  <2>4. ASSUME NEW x \in low..top PROVE h[x] = Follows(d, b, h, x)
    <3>1. x \in Nat /\ \A y \in x + 1..top : y \in low + 1..top
      BY <1>1, <2>1
    <3>2. \A y \in x + 1..Len(d) + Len(b) : f[y] = h[y]
      BY <2>3, <3>1
    <3>3. h[x] = Follows(d, b, f, x)
      <4>1. CASE x = low
        BY <4>1
      <4>2. CASE x # low
        <5>1. x \in low + 1..top
          BY <1>1, <2>1, <4>2
        <5>2. QED
          BY <2>3, <5>1
      <4>3. QED
        BY <4>1, <4>2
    <3> HIDE DEF h
    <3>4. Follows(d, b, f, x) = Follows(d, b, h, x)
      BY <3>1, <3>2, FollowsReadsAhead
    <3>5. QED
      BY <3>3, <3>4
  <2>5. Gives(h, low)
    <3>1. h = [x \in low..top |-> h[x]]
      OBVIOUS
    <3> HIDE DEF h
    <3>2. QED
      BY <2>4, <3>1
  <2> HIDE DEF Gives, h
  <2>6. \E i : Gives(i, low)
    BY <2>5
  <2>7. QED
    BY <2>1, <2>6 DEF low
<1>4. PICK f : Gives(f, 0)
  <2> HIDE DEF S, top
  <2>1. 0..top \subseteq S
    BY <1>1, <1>2, <1>3, UpTo
  <2>2. top \in S /\ top - top = 0
    BY <1>1, <2>1
  <2> HIDE DEF Gives
  <2>3. \E h : Gives(h, top - top)
    BY <2>2 DEF S
  <2>4. QED
    BY <2>2, <2>3
<1>5. g = CHOOSE h : Gives(h, 0)
  BY DEF Rests, Follows
<1>6. Gives(g, 0)
  <2> HIDE DEF Gives, g
  <2>1. QED
    BY <1>4, <1>5, Zenon
<1>7. findall(d, b) = g[0]
  BY DEF findall, Rests
<1> HIDE DEF g
<1>8. \A from \in 0..top : g[from] = Follows(d, b, g, from)
  BY <1>6
<1>9. QED
  BY <1>7, <1>8 DEF g

\* What joining does with one piece, and with one piece more in front.
LEMMA JoinedOne ==
    ASSUME NEW C, NEW v \in Seq(C), NEW b \in Seq(C)
    PROVE  Joined(<<v>>, b) = v
<1> DEFINE p == <<v>>
<1>1. p \in Seq(Seq(C)) /\ p # <<>> /\ Len(p) - 1 = 0 /\ p[1] = v
  OBVIOUS
<1> HIDE DEF p
<1>2. Joining(p, b)[0] = p[1] /\ Joined(p, b) = Joining(p, b)[Len(p) - 1]
  BY <1>1, JoiningIs
<1>3. QED
  BY <1>1, <1>2 DEF p

\* ... and with one piece more in front.
LEMMA JoinedCons ==
    ASSUME NEW C, NEW v \in Seq(C), NEW b \in Seq(C), NEW q \in Seq(Seq(C)), q # <<>>
    PROVE  Joined(<<v>> \o q, b) = v \o b \o Joined(q, b) /\ Joined(q, b) \in Seq(C)
<1> DEFINE p == <<v>> \o q
           f == Joining(p, b)
           g == Joining(q, b)
           n == Len(q)
           S == {k \in 0..n - 1 : f[k + 1] = v \o b \o g[k]}
<1>1. n \in Nat /\ n >= 1 /\ n - 1 \in Nat /\ \A k \in 1..n : q[k] \in Seq(C)
  OBVIOUS
<1>2. p \in Seq(Seq(C)) /\ p # <<>> /\ Len(p) = n + 1 /\ p[1] = v /\ \A k \in 1..n : p[k + 1] = q[k]
  OBVIOUS
<1> HIDE DEF p
<1>3. /\ f \in [0..n -> Seq(C)] /\ f[0] = v /\ Joined(p, b) = f[n]
      /\ \A k \in 1..n : f[k] = f[k - 1] \o b \o q[k]
  <2>1. /\ f \in [0..Len(p) - 1 -> Seq(C)] /\ f[0] = p[1] /\ Joined(p, b) = f[Len(p) - 1]
        /\ \A k \in 1..Len(p) - 1 : f[k] = f[k - 1] \o b \o p[k + 1]
    BY <1>2, JoiningIs
  <2>2. Len(p) - 1 = n
    BY <1>1, <1>2
  <2> HIDE DEF f, n
  <2>3. QED
    BY <1>2, <2>1, <2>2
<1>4. /\ g \in [0..n - 1 -> Seq(C)] /\ g[0] = q[1] /\ Joined(q, b) = g[n - 1]
      /\ \A k \in 1..n - 1 : g[k] = g[k - 1] \o b \o q[k + 1]
  BY JoiningIs
<1> HIDE DEF f, g, n
<1>5. 0 \in S
  <2>1. f[1] = f[0] \o b \o q[1]
    <3>1. 1 \in 1..n /\ 1 - 1 = 0
      BY <1>1
    <3>2. f[1] = f[1 - 1] \o b \o q[1]
      BY <1>3, <3>1, Zenon
    <3>3. QED
      BY <3>1, <3>2
  <2>2. f[0 + 1] = v \o b \o g[0]
    <3>1. f[1] = v \o b \o g[0]
      BY <1>3, <1>4, <2>1, Zenon
    <3>2. 0 + 1 = 1
      OBVIOUS
    <3>3. QED
      BY <3>1, <3>2
  <2>3. 0 \in 0..n - 1
    BY <1>1
  <2>4. QED
    BY <2>2, <2>3
<1>6. ASSUME NEW k \in 1..n - 1, k - 1 \in S PROVE k \in S
  <2>1. k + 1 \in 1..n /\ k - 1 \in 0..n - 1 /\ (k + 1) - 1 = k /\ (k - 1) + 1 = k /\ k \in 0..n - 1
    BY <1>1
  <2> DEFINE y == g[k - 1]
             z == q[k + 1]
             u == v \o b
  <2>2. y \in Seq(C) /\ z \in Seq(C) /\ u \in Seq(C)
    BY <1>1, <1>4, <2>1
  <2>3. f[k] = u \o y
    BY <1>6, <2>1
  <2>4. f[k + 1] = f[k] \o b \o z
    BY <1>3, <2>1
  <2>5. g[k] = y \o b \o z
    BY <1>4
  <2> HIDE DEF y, z, u
  <2>6. RegroupFour(C, u, y, b, z)
    BY <2>2, RegroupingFour, Zenon
  <2>7. f[k + 1] = u \o g[k]
    BY <2>3, <2>4, <2>5, <2>6, Zenon DEF RegroupFour
  <2>8. QED
    BY <2>1, <2>7 DEF u
<1>7. 0..n - 1 \subseteq S
  <2> HIDE DEF S
  <2>1. QED
    BY <1>1, <1>5, <1>6, UpTo
<1>8. n - 1 \in S /\ (n - 1) + 1 = n
  <2> HIDE DEF S
  <2>1. n - 1 \in 0..n - 1 /\ (n - 1) + 1 = n
    BY <1>1
  <2>2. QED
    BY <1>7, <2>1
<1>9. f[n] = v \o b \o g[n - 1] /\ g[n - 1] \in Seq(C)
  BY <1>1, <1>4, <1>8
<1>10. QED
  BY <1>3, <1>4, <1>9 DEF p

\* What is left at a position is nothing a search could find a separator in.
Lost(d, b, x) ==
    \/ IsPrefix(SubSeq(d, x + 1, Len(d)), b)
    \/ IsPrefix(b, SubSeq(d, x + 1, Len(d))) /\ Len(SubSeq(d, x + 1, Len(d))) < 2 * Len(b)

\* What SegmentsSound says of the data from a position on.
Segments(C, d, b, from, vals) ==
    /\ vals \in Seq(Seq(C))
    /\ vals = <<>> <=> from + Len(b) > Len(d)
    /\ \A i \in DOMAIN vals : Occurrences(vals[i], b) = {}
    /\ vals # <<>> =>
         LET to == from + Len(Joined(vals, b))
         IN  to <= Len(d) /\ Joined(vals, b) = Part(d, from, to) /\ Lost(d, b, to)

\* A value ends at the first separator behind its beginning.
LEMMA ValueIsFree ==
    ASSUME NEW C, NEW d \in Seq(C), NEW b \in Seq(C), b # <<>>, NEW from \in Nat, NEW e \in Nat,
           from <= e, e <= Len(d), \A i \in from..e - 1 : ~MatchesAt(d, i, b)
    PROVE  Occurrences(Part(d, from, e), b) = {}
<1> DEFINE v == Part(d, from, e)
           m == Len(b)
<1>1. v \in Seq(C) /\ Len(v) = e - from /\ m \in Nat /\ m > 0 /\ Len(d) \in Nat
  <2>1. m \in Nat /\ m > 0 /\ Len(d) \in Nat
    OBVIOUS
  <2>2. QED
    BY <2>1, PartIs
<1> HIDE DEF v, m
<1>2. ASSUME NEW j \in 0..Len(v) - 1, MatchesAt(v, j, b) PROVE FALSE
  <2>1. j \in Nat /\ from + j \in from..e - 1
    BY <1>1
  <2>2. j + m <= Len(v) /\ Part(v, j, j + m) = b
    BY <1>1, <1>2, <2>1, MatchIsPart DEF m
  <2>3. j + m \in Nat /\ j <= j + m /\ j + m <= e - from /\ from + j + m <= Len(d)
        /\ from + j \in Nat /\ from + (j + m) = (from + j) + m
    BY <1>1, <2>1, <2>2
  <2>4. Part(v, j, j + m) = Part(d, from + j, from + (j + m))
    BY <2>1, <2>3, PartOfPart DEF v
  <2>5. (from + j) + m <= Len(d) /\ Part(d, from + j, (from + j) + m) = b
    BY <2>2, <2>3, <2>4
  <2>6. MatchesAt(d, from + j, b)
    BY <2>3, <2>5, MatchIsPart DEF m
  <2>7. QED
    BY <2>1, <2>6
<1>3. QED
  BY <1>2 DEF Occurrences, v

\* A value behind which no further one fits is the last.
LEMMA LastSegment ==
    ASSUME NEW C, NEW d \in Seq(C), NEW b \in Seq(C), b # <<>>, NEW from \in Nat, NEW e \in Nat,
           from <= e, e <= Len(d), \A i \in from..e - 1 : ~MatchesAt(d, i, b),
           from + Len(b) <= Len(d), Ends(d, b, e), e + 2 * Len(b) > Len(d)
    PROVE  Segments(C, d, b, from, <<Part(d, from, e)>>)
<1> DEFINE v == Part(d, from, e)
           m == Len(b)
           T == Len(d)
           r == Part(d, e, T)
<1>1. m \in Nat /\ m > 0 /\ T \in Nat
  OBVIOUS
<1>2. v \in Seq(C) /\ Len(v) = e - from /\ r \in Seq(C) /\ Len(r) = T - e
  <2>1. v \in Seq(C) /\ Len(v) = e - from
    BY PartIs
  <2>2. T <= T
    BY <1>1
  <2> HIDE DEF v
  <2>3. r \in Seq(C) /\ Len(r) = T - e
    BY <1>1, <2>2, PartIs
  <2>4. QED
    BY <2>1, <2>3
<1>3. Occurrences(v, b) = {}
  BY ValueIsFree
<1>4. Lost(d, b, e)
  <2>1. CASE MatchesAt(d, e, b)
    <3>1. e + m <= T /\ Part(d, e, e + m) = b
      BY <2>1, MatchIsPart
    <3>2. m <= T - e /\ e + 0 = e /\ 0 <= m /\ 0 \in Nat
      BY <1>1, <3>1
    <3>3. Part(r, 0, m) = Part(d, e + 0, e + m)
      <4> HIDE DEF m
      <4>1. QED
        BY <1>1, <3>2, PartOfPart
    <3>4. Part(r, 0, m) = b /\ Part(b, 0, m) = b
      BY <3>1, <3>2, <3>3, PartAll
    <3>5. m <= Len(r) /\ Len(r) < 2 * m
      BY <1>1, <1>2, <3>2
    <3> HIDE DEF m, v
    <3>6. SubSeq(b, 1, m) = SubSeq(r, 1, m)
      <4>1. 0 + 1 = 1
        OBVIOUS
      <4>2. QED
        BY <3>4, <4>1 DEF Part
    <3>7. IsPrefix(b, r)
      BY <3>5, <3>6, Zenon DEF IsPrefix, m
    <3>8. QED
      BY <3>5, <3>7 DEF Lost, m, Part
  <2>2. CASE IsPrefix(SubSeq(d, e + 1, T), b)
    BY <2>2 DEF Lost
  <2>3. QED
    BY <2>1, <2>2 DEF Ends
<1>5. Joined(<<v>>, b) = v
  BY <1>2, JoinedOne
<1>6. from + Len(v) = e
  BY <1>2
<1> HIDE DEF v, m, T, r
<1>7. <<v>> \in Seq(Seq(C)) /\ <<v>> # <<>> /\ DOMAIN <<v>> = {1} /\ <<v>>[1] = v
  BY <1>2
<1>8. ~(from + Len(b) > Len(d))
  BY <1>1 DEF m, T
<1>9. from + Len(Joined(<<v>>, b)) = e
  BY <1>5, <1>6
<1>10. Joined(<<v>>, b) = Part(d, from, e)
  BY <1>5 DEF v
<1>11. Segments(C, d, b, from, <<v>>)
  <2>1. \A i \in DOMAIN <<v>> : Occurrences(<<v>>[i], b) = {}
    BY <1>3, <1>7
  <2>2. <<v>> = <<>> <=> from + Len(b) > Len(d)
    BY <1>7, <1>8
  <2>3. QED
    BY <1>4, <1>7, <1>9, <1>10, <2>1, <2>2 DEF Segments
<1>12. QED
  BY <1>11 DEF v

\* A value in front of those of the rest.
LEMMA MoreSegments ==
    ASSUME NEW C, NEW d \in Seq(C), NEW b \in Seq(C), b # <<>>, NEW from \in Nat, NEW e \in Nat,
           from <= e, e <= Len(d), \A i \in from..e - 1 : ~MatchesAt(d, i, b),
           Ends(d, b, e), e + 2 * Len(b) <= Len(d),
           NEW vals, Segments(C, d, b, e + Len(b), vals)
    PROVE  Segments(C, d, b, from, <<Part(d, from, e)>> \o vals)
<1> DEFINE v == Part(d, from, e)
           m == Len(b)
           T == Len(d)
           L == Len(Joined(vals, b))
           all == <<v>> \o vals
<1>1. m \in Nat /\ m > 0 /\ T \in Nat
  OBVIOUS
<1>2. v \in Seq(C) /\ Occurrences(v, b) = {}
  BY PartIs, ValueIsFree
<1>3. /\ vals \in Seq(Seq(C)) /\ vals # <<>>
      /\ \A i \in DOMAIN vals : Occurrences(vals[i], b) = {}
      /\ (e + m) + L <= T /\ Joined(vals, b) = Part(d, e + m, (e + m) + L)
      /\ Lost(d, b, (e + m) + L)
  <2>1. ~((e + m) + m > T)
    BY <1>1
  <2> HIDE DEF T, m
  <2>2. QED
    BY <2>1 DEF Segments, T, m
<1>4. MatchesAt(d, e, b)
  <2>1. ~(T - e < m)
    BY <1>1
  <2>2. QED
    BY <2>1 DEF Ends
<1>5. e + m <= T /\ Part(d, e, e + m) = b
  BY <1>4, MatchIsPart
<1> HIDE DEF v
<1>6. Joined(all, b) = v \o b \o Joined(vals, b) /\ Joined(vals, b) \in Seq(C)
  <2>1. v \in Seq(C) /\ vals \in Seq(Seq(C)) /\ vals # <<>>
    BY <1>2, <1>3
  <2>2. Joined(<<v>> \o vals, b) = v \o b \o Joined(vals, b) /\ Joined(vals, b) \in Seq(C)
    BY <2>1, JoinedCons
  <2>3. QED
    BY <2>2
<1>7. L \in Nat
  BY <1>6
<1> DEFINE to == (e + m) + L
<1> HIDE DEF m, T, L
<1>8. to \in Nat /\ e + m \in Nat /\ e + m <= to /\ to <= T /\ e <= e + m /\ from <= e + m
  BY <1>1, <1>3, <1>7
<1> HIDE DEF to
<1>9. v \o b = Part(d, from, e + m)
  <2>1. Part(d, from, e) \o Part(d, e, e + m) = Part(d, from, e + m)
    BY <1>5, <1>8, PartsMeet DEF T
  <2>2. QED
    BY <1>5, <2>1 DEF v
<1>10. Joined(all, b) = Part(d, from, to)
  <2>1. Part(d, from, e + m) \o Part(d, e + m, to) = Part(d, from, to)
    BY <1>8, PartsMeet DEF T
  <2>2. Joined(vals, b) = Part(d, e + m, to)
    BY <1>3 DEF to
  <2>3. QED
    BY <1>6, <1>9, <2>1, <2>2
<1>11. from + Len(Joined(all, b)) = to
  <2>1. from <= to
    BY <1>8
  <2>2. Len(Part(d, from, to)) = to - from
    BY <1>8, <2>1, PartIs DEF T
  <2>3. QED
    BY <1>8, <1>10, <2>2
<1>12. Lost(d, b, to) /\ to <= Len(d)
  BY <1>3, <1>8 DEF to, T
<1>13. /\ all \in Seq(Seq(C)) /\ all # <<>>
       /\ \A i \in DOMAIN all :
            (i = 1 /\ all[i] = v) \/ (i - 1 \in DOMAIN vals /\ all[i] = vals[i - 1])
  <2>1. v \in Seq(C) /\ vals \in Seq(Seq(C))
    BY <1>2, <1>3
  <2>2. QED
    BY <2>1
<1> HIDE DEF all
<1>14. \A i \in DOMAIN all : Occurrences(all[i], b) = {}
  BY <1>2, <1>3, <1>13
<1>15. ~(from + Len(b) > Len(d))
  BY <1>1, <1>8, <1>5 DEF m, T
<1>16. Segments(C, d, b, from, all)
  <2>1. all = <<>> <=> from + Len(b) > Len(d)
    BY <1>13, <1>15
  <2>2. QED
    BY <1>10, <1>11, <1>12, <1>13, <1>14, <2>1 DEF Segments
<1>17. QED
  BY <1>16 DEF all, v

\* From the end of the data back to its beginning.
LEMMA RestsAreSegments ==
    ASSUME NEW C, NEW d \in Seq(C), NEW b \in Seq(C), b # <<>>
    PROVE  \A from \in 0..Len(d) + Len(b) : \A vals \in Rests(d, b)[from] :
             Segments(C, d, b, from, vals)
<1> DEFINE top == Len(d) + Len(b)
           m == Len(b)
           R == Rests(d, b)
           Good(from) == \A vals \in R[from] : Segments(C, d, b, from, vals)
           S == {k \in 0..top : \A from \in top - k..top : Good(from)}
<1>1. top \in Nat /\ m \in Nat /\ m > 0 /\ Len(d) \in Nat /\ top = Len(d) + m
  OBVIOUS
<1>2. ASSUME NEW from \in 0..top, \A x \in from + 1..top : Good(x) PROVE Good(from)
  <2> SUFFICES ASSUME NEW vals \in R[from] PROVE Segments(C, d, b, from, vals)
    OBVIOUS
  <2>1. from \in Nat /\ R[from] = Follows(d, b, R, from)
    BY RestsAre
  <2>2. CASE from + m > Len(d)
    <3>1. next(d, b, from) = {}
      BY <2>1, <2>2, FoundIs DEF next
    <3>2. vals = <<>>
      BY <2>1, <3>1 DEF Follows
    <3>3. vals \in Seq(Seq(C)) /\ DOMAIN vals = {}
      BY <3>2
    <3>4. QED
      BY <2>2, <3>2, <3>3 DEF Segments
  <2>3. CASE ~(from + m > Len(d))
    <3>1. findBytes(d, b, from) \ {-1} # {}
      BY <2>1, <2>3, FoundIs
    <3>2. next(d, b, from) # {}
      BY <3>1 DEF next
    <3>3. PICK n \in next(d, b, from) : \E w \in R[n.nextOffset] : vals = <<n.val>> \o w
      <4> DEFINE F(n) == {<<n.val>> \o w : w \in R[n.nextOffset]}
      <4>1. vals \in Follows(d, b, R, from)
        BY <2>1
      <4>2. Follows(d, b, R, from) = UNION {F(n) : n \in next(d, b, from)}
        BY <3>2 DEF Follows
      <4>3. \E n \in next(d, b, from) : vals \in F(n)
        BY <4>1, <4>2
      <4>4. QED
        BY <4>3
    <3>4. PICK w \in R[n.nextOffset] : vals = <<n.val>> \o w
      BY <3>3
    <3>5. PICK e \in findBytes(d, b, from) \ {-1} :
            n = [val |-> SubSeq(d, from + 1, e), nextOffset |-> e + Len(b)]
      BY DEF next
    <3>6. /\ from + Len(b) <= Len(d) /\ e \in from..Len(d)
          /\ \A i \in from..e - 1 : ~MatchesAt(d, i, b)
          /\ Ends(d, b, e)
      BY <2>1, FoundIs
    <3>7. e \in Nat /\ from <= e /\ e <= Len(d) /\ e + m \in from + 1..top
      BY <1>1, <2>1, <3>6
    <3>8. n.val = Part(d, from, e) /\ n.nextOffset = e + m
      BY <3>5 DEF Part
    <3> HIDE DEF R
    <3>9. Segments(C, d, b, e + Len(b), w)
      BY <1>2, <3>4, <3>7, <3>8
    <3>10. CASE e + 2 * Len(b) > Len(d)
      <4>1. (e + Len(b)) + Len(b) > Len(d)
        BY <1>1, <3>7, <3>10
      <4>2. w = <<>>
        BY <3>9, <4>1 DEF Segments
      <4>3. vals = <<Part(d, from, e)>>
        BY <3>4, <3>8, <4>2
      <4>4. Segments(C, d, b, from, <<Part(d, from, e)>>)
        BY <2>1, <3>6, <3>7, <3>10, LastSegment
      <4>5. QED
        BY <4>3, <4>4
    <3>11. CASE e + 2 * Len(b) <= Len(d)
      <4>1. Segments(C, d, b, from, <<Part(d, from, e)>> \o w)
        BY <2>1, <3>6, <3>7, <3>9, <3>11, MoreSegments
      <4>2. QED
        BY <3>4, <3>8, <4>1
    <3>12. QED
      BY <1>1, <3>7, <3>10, <3>11
  <2>4. QED
    BY <2>2, <2>3
<1> HIDE DEF Good, top, m
<1>3. 0 \in S
  <2>1. ASSUME NEW from \in top - 0..top PROVE Good(from)
    <3>1. from \in 0..top /\ from + 1..top = {}
      BY <1>1
    <3>2. QED
      BY <1>2, <3>1
  <2>2. 0 \in 0..top
    BY <1>1
  <2>3. QED
    BY <2>1, <2>2
<1>4. ASSUME NEW k \in 1..top, k - 1 \in S PROVE k \in S
  <2>1. \A x \in top - (k - 1)..top : Good(x)
    BY <1>4
  <2>2. ASSUME NEW from \in top - k..top PROVE Good(from)
    <3>1. from \in 0..top /\ \A x \in from + 1..top : x \in top - (k - 1)..top
      BY <1>1
    <3>2. QED
      BY <1>2, <2>1, <3>1
  <2>3. k \in 0..top
    BY <1>1
  <2>4. QED
    BY <2>2, <2>3
<1>5. 0..top \subseteq S
  <2> HIDE DEF S
  <2>1. QED
    BY <1>1, <1>3, <1>4, UpTo
<1>6. top \in 0..top /\ top - top = 0
  BY <1>1
<1>7. \A from \in top - top..top : Good(from)
  BY <1>5, <1>6
<1>8. QED
  BY <1>6, <1>7 DEF Good, top

\* What SegmentsSound says, of one string and one separator (Helper.swift:36-85).
LEMMA SegmentsAreSound ==
    ASSUME NEW C, NEW d \in Seq(C), NEW b \in Seq(C), b # <<>>, NEW vals \in findall(d, b)
    PROVE  /\ vals = <<>> <=> Len(d) < Len(b)
           /\ \A i \in DOMAIN vals : Occurrences(vals[i], b) = {}
           /\ vals # <<>> =>
                LET given == Joined(vals, b)
                    lost  == SubSeq(d, Len(given) + 1, Len(d))
                IN  /\ IsPrefix(given, d)
                    /\ IsPrefix(lost, b) \/ (IsPrefix(b, lost) /\ Len(lost) < 2 * Len(b))
<1> DEFINE given == Joined(vals, b)
           L == Len(given)
<1>1. Len(b) \in Nat /\ Len(d) \in Nat /\ 0 \in 0..Len(d) + Len(b)
  OBVIOUS
<1>2. vals \in Rests(d, b)[0]
  BY RestsAre
<1>3. Segments(C, d, b, 0, vals)
  BY <1>1, <1>2, RestsAreSegments
<1>4. vals = <<>> <=> Len(d) < Len(b)
  BY <1>1, <1>3 DEF Segments
<1>5. \A i \in DOMAIN vals : Occurrences(vals[i], b) = {}
  BY <1>3 DEF Segments
<1>6. ASSUME vals # <<>>
      PROVE  /\ IsPrefix(given, d)
             /\ \/ IsPrefix(SubSeq(d, L + 1, Len(d)), b)
                \/ /\ IsPrefix(b, SubSeq(d, L + 1, Len(d)))
                   /\ Len(SubSeq(d, L + 1, Len(d))) < 2 * Len(b)
  <2>1. 0 + L <= Len(d) /\ given = Part(d, 0, 0 + L) /\ Lost(d, b, 0 + L)
    BY <1>3, <1>6 DEF Segments
  <2>2. L \in Nat
    <3>1. vals \in Seq(Seq(C))
      BY <1>3 DEF Segments
    <3>2. /\ Joining(vals, b) \in [0..Len(vals) - 1 -> Seq(C)]
          /\ given = Joining(vals, b)[Len(vals) - 1]
      BY <1>6, <3>1, JoiningIs
    <3>3. Len(vals) - 1 \in 0..Len(vals) - 1
      BY <1>6, <3>1
    <3> HIDE DEF given
    <3>4. given \in Seq(C)
      BY <3>2, <3>3
    <3>5. QED
      BY <3>4
  <2> HIDE DEF L
  <2>3. 0 + L = L
    BY <2>2
  <2>4. L <= Len(d) /\ given = Part(d, 0, L) /\ Lost(d, b, L)
    BY <2>1, <2>3
  <2>5. SubSeq(given, 1, L) = SubSeq(d, 1, L)
    <3>1. given = SubSeq(d, 1, L)
      <4>1. 0 + 1 = 1
        OBVIOUS
      <4>2. QED
        BY <2>4, <4>1 DEF Part
    <3>2. Part(d, 0, L) \in Seq(C)
      BY <1>1, <2>2, <2>4, PartIs
    <3> HIDE DEF given
    <3>3. given \in Seq(C)
      BY <2>4, <3>2
    <3>4. Part(given, 0, L) = given
      BY <3>3, PartAll DEF L
    <3>5. SubSeq(given, 0 + 1, L) = given /\ 0 + 1 = 1
      BY <3>4 DEF Part
    <3>6. QED
      BY <3>1, <3>5
  <2>6. IsPrefix(given, d)
    BY <2>4, <2>5 DEF IsPrefix, L
  <2>7. QED
    BY <2>4, <2>6 DEF Lost
<1>7. QED
  BY <1>4, <1>5, <1>6

\* The characters of the strings and marks of the instance.
Alphabet == UNION {ToSet(s) : s \in Texts \cup Marks}

\* They are sequences over it.
LEMMA StringsOfAlphabet == \A s \in Texts \cup Marks : s \in Seq(Alphabet)
<1> SUFFICES ASSUME NEW s \in Texts \cup Marks PROVE s \in Seq(Alphabet)
  OBVIOUS
<1>1. s \in Seq(ToSet(s))
  BY SXStringAssumption
<1>2. ToSet(s) \subseteq Alphabet
  BY DEF Alphabet
<1> DEFINE D == ToSet(s)
<1> HIDE DEF D
<1>3. \A i \in DOMAIN s : s[i] \in D
  BY <1>1 DEF D
<1>4. s = [i \in 1..Len(s) |-> s[i]] /\ Len(s) \in Nat /\ \A i \in 1..Len(s) : s[i] \in Alphabet
  BY <1>1, <1>2, <1>3 DEF D
<1>5. QED
  BY <1>4

\* For every set of texts and marks, not only short ones: splitting, replacing, removing,
\* joining, comparing and the vectors compute what StringsAgree says (SXString.c, SXVector.c).
THEOREM StringsAgreeHolds == StringsAgree
<1>1. SplitSound
  BY StringsOfAlphabet, SplitIsSound DEF SplitSound
<1>2. ReplaceSound
  BY StringsOfAlphabet, CuttableIffApart, ReplaceIsSound DEF ReplaceSound
<1>3. RemoveSound
  BY StringsOfAlphabet, RemoveIsSound DEF RemoveSound
<1>4. JoinTwo
  BY StringsOfAlphabet, DefinedIsCuttable, JoinIsSound DEF JoinTwo
<1>5. ContainsSound
  BY StringsOfAlphabet, ContainsIsSound DEF ContainsSound
<1>6. QED
  BY <1>1, <1>2, <1>3, <1>4, <1>5, ItemsAreGivenOnce DEF StringsAgree

\* For every set of texts and marks: the values the Swift port cuts data into are free of
\* the separator, in order and complete but for the end (Helper.swift:36-85).
THEOREM SegmentsSoundHolds == SegmentsSound
<1> SUFFICES ASSUME NEW d \in Texts, NEW b \in Marks, findallDefined(b), NEW vals \in findall(d, b)
             PROVE  /\ vals = <<>> <=> Len(d) < Len(b)
                    /\ \A i \in DOMAIN vals : Occurrences(vals[i], b) = {}
                    /\ vals # <<>> =>
                         LET given == Joined(vals, b)
                             lost  == SubSeq(d, Len(given) + 1, Len(d))
                         IN  /\ IsPrefix(given, d)
                             /\ IsPrefix(lost, b) \/ (IsPrefix(b, lost) /\ Len(lost) < 2 * Len(b))
  BY DEF SegmentsSound
<1>1. d \in Seq(Alphabet) /\ b \in Seq(Alphabet) /\ b # <<>>
  BY StringsOfAlphabet DEF findallDefined
<1>2. QED
  BY <1>1, SegmentsAreSound, Zenon

\* Whenever a worker takes a request apart, the operations it does so with are sound,
\* whatever the texts and marks are (SXString.c, SXVector.c, Helper.swift).
THEOREM StringsSoundHolds == Spec => []StringsSound
<1>1. StringsSound
  BY StringsAgreeHolds, SegmentsSoundHolds DEF StringsSound
<1>2. QED
  BY <1>1, PTL

-----------------------------------------------------------------------------
(* One occurrence, or two.                                                 *)

\* A search that has one position to list returns that.
LEMMA OneListed ==
    ASSUME NEW locas, NEW p, Lists(locas, {p})
    PROVE  Len(locas) = 1 /\ locas[1] = p /\ locas # <<>>
<1> DEFINE n == Len(locas)
<1>1. n \in Nat /\ (locas = <<>> => n = 0)
  BY DEF Lists
<1>2. PICK i \in 1..n : locas[i] = p
  BY DEF Lists
<1>3. \A x, y \in 1..n : x < y => locas[x] < locas[y] /\ locas[x] \in Nat /\ locas[y] \in Nat
  BY DEF Lists
<1>4. \A x \in 1..n : locas[x] = p
  BY DEF Lists
<1> HIDE DEF n
<1>5. n >= 1
  BY <1>1, <1>2
<1>6. ASSUME n >= 2 PROVE FALSE
  <2>1. 1 \in 1..n /\ 2 \in 1..n /\ 1 < 2
    BY <1>1, <1>6
  <2>2. locas[1] < locas[2] /\ locas[1] \in Nat /\ locas[2] \in Nat
    BY <1>3, <2>1
  <2>3. locas[1] = p /\ locas[2] = p
    BY <1>4, <2>1
  <2>4. QED
    BY <2>2, <2>3
<1>7. n = 1 /\ 1 \in 1..n /\ n # 0
  BY <1>1, <1>5, <1>6
<1>8. QED
  BY <1>1, <1>4, <1>7 DEF n

\* One that has two to list returns them in their order.
LEMMA TwoListed ==
    ASSUME NEW locas, NEW p \in Nat, NEW q \in Nat, p < q, Lists(locas, {p, q})
    PROVE  Len(locas) = 2 /\ locas[1] = p /\ locas[2] = q /\ locas # <<>>
<1> DEFINE n == Len(locas)
<1>1. n \in Nat /\ (locas = <<>> => n = 0)
  BY DEF Lists
<1>2. PICK i \in 1..n : locas[i] = p
  BY DEF Lists
<1>3. PICK j \in 1..n : locas[j] = q
  BY DEF Lists
<1>4. \A x, y \in 1..n : x < y => locas[x] < locas[y]
  BY DEF Lists
<1>5. \A x \in 1..n : locas[x] = p \/ locas[x] = q
  BY DEF Lists
<1> HIDE DEF n
<1>6. i < j
  <2>1. i # j
    BY <1>2, <1>3
  <2>2. ~(j < i)
    BY <1>2, <1>3, <1>4
  <2>3. QED
    BY <2>1, <2>2, <1>1
<1>7. \A x \in 1..n : x = i \/ x = j
  <2> SUFFICES ASSUME NEW x \in 1..n, x # i, x # j PROVE FALSE
    OBVIOUS
  <2>1. x < i \/ (i < x /\ x < j) \/ j < x
    BY <1>1, <1>6
  <2>2. x < i => locas[x] < p
    BY <1>2, <1>4
  <2>3. i < x => p < locas[x]
    BY <1>2, <1>4
  <2>4. x < j => locas[x] < q
    BY <1>3, <1>4
  <2>5. j < x => q < locas[x]
    BY <1>3, <1>4
  <2>6. QED
    BY <1>5, <1>6, <2>1, <2>2, <2>3, <2>4, <2>5
<1>8. n = 2 /\ i = 1 /\ j = 2
  <2>1. 1 \in 1..n /\ n \in 1..n
    BY <1>1
  <2>2. i = 1 /\ j = n
    BY <1>1, <1>6, <1>7, <2>1
  <2>3. n >= 3 => 2 \in 1..n /\ 2 # i /\ 2 # j
    BY <1>1, <2>2
  <2>4. QED
    BY <1>1, <1>6, <1>7, <2>2, <2>3
<1>9. QED
  BY <1>1, <1>2, <1>3, <1>8 DEF n

\* t cuts x in two, at p.
HasTwo(C, x, t, p) ==
    /\ SXStringSubCStringLocations(x, t) # <<>>
    /\ Cuttable(x, t) /\ p + Len(t) <= Len(x) /\ p < Len(x)
    /\ SXStringSubStringsTrimmedByString(x, t)[1] = Part(x, 0, p)
    /\ SXStringSubStringsTrimmedByString(x, t)[2] = Part(x, p + Len(t), Len(x))
    /\ \A r \in Seq(C) : Joined(SXStringSubStringsTrimmedByString(x, t), r)
                            = Part(x, 0, p) \o r \o Part(x, p + Len(t), Len(x))

\* Cut at its only occurrence a string falls into what stands before and behind it.
LEMMA CutOnce ==
    ASSUME NEW C, NEW x \in Seq(C), NEW t \in Seq(C), NEW p \in Nat, Occurrences(x, t) = {p}
    PROVE  HasTwo(C, x, t, p)
<1> DEFINE locas == SXStringSubCStringLocations(x, t)
           pieces == SXStringSubStringsTrimmedByString(x, t)
           u == Part(x, 0, p)
           w == Part(x, p + Len(t), Len(x))
<1>1. Lists(locas, {p})
  BY LocationsList
<1>2. Len(locas) = 1 /\ locas[1] = p /\ locas # <<>>
  BY <1>1, OneListed
<1>3. Cuttable(x, t)
  <2>1. Apart(x, t, Len(t))
    BY DEF Apart
  <2>2. QED
    BY <2>1, CuttableIffApart
<1>4. Pieces(x, t) = 2
  BY <1>2 DEF Pieces
<1>5. /\ PieceFrom(x, t, 1) = 0 /\ PieceTo(x, t, 1) = p
      /\ PieceFrom(x, t, 2) = p + Len(t) /\ PieceTo(x, t, 2) = Len(x)
  BY <1>2 DEF PieceFrom, PieceTo
<1>6. /\ pieces \in Seq(Seq(C)) /\ Len(pieces) = Pieces(x, t)
      /\ \A i \in 1..Pieces(x, t) :
                    /\ pieces[i] = Part(x, PieceFrom(x, t, i), PieceTo(x, t, i))
                    /\ pieces[i] \in Seq(C)
  BY <1>3, TrimmedIs
<1>7. 1 \in 1..Pieces(x, t) /\ 2 \in 1..Pieces(x, t) /\ 1 # Pieces(x, t) /\ 1 + 1 = 2
  BY <1>4
<1>8. pieces[1] = u /\ pieces[2] = w /\ u \in Seq(C) /\ w \in Seq(C) /\ Len(pieces) = 2
  BY <1>4, <1>5, <1>6, <1>7
<1>9. p \in Occurrences(x, t)
  OBVIOUS
<1>10. p + Len(t) <= Len(x) /\ p < Len(x)
  BY <1>9 DEF Occurrences, MatchesAt
<1> HIDE DEF locas, pieces, u, w
<1>11. ASSUME NEW r \in Seq(C) PROVE Joined(pieces, r) = u \o r \o w
  <2>1. /\ Pasted(x, t, r, 1) = Part(x, 0, PieceTo(x, t, 1))
        /\ \A i \in 1..Pieces(x, t) : i # Pieces(x, t) =>
                Pasted(x, t, r, i + 1)
                  = Pasted(x, t, r, i) \o r \o Part(x, PieceFrom(x, t, i + 1), PieceTo(x, t, i + 1))
        /\ Joined(pieces, r) = Pasted(x, t, r, Pieces(x, t))
    BY <1>3, PastedIs DEF pieces
  <2>2. Pasted(x, t, r, 2) = Pasted(x, t, r, 1) \o r \o Part(x, PieceFrom(x, t, 2), PieceTo(x, t, 2))
    BY <1>7, <2>1
  <2>3. Pasted(x, t, r, 1) = u
    BY <1>5, <2>1 DEF u
  <2>4. Pasted(x, t, r, 2) = u \o r \o w
    BY <1>5, <2>2, <2>3 DEF w
  <2>5. QED
    BY <1>4, <2>1, <2>4
<1>12. QED
  BY <1>2, <1>3, <1>8, <1>10, <1>11 DEF HasTwo, locas, pieces, u, w

\* The first two pieces of x end at p and q.
HasFirstTwo(x, t, p, q) ==
    /\ Cuttable(x, t)
    /\ SXStringSubStringsTrimmedByString(x, t)[1] = Part(x, 0, p)
    /\ SXStringSubStringsTrimmedByString(x, t)[2] = Part(x, p + Len(t), q)

\* Cut at two occurrences, the first two pieces.
LEMMA CutTwice ==
    ASSUME NEW C, NEW x \in Seq(C), NEW t \in Seq(C), NEW p \in Nat, NEW q \in Nat,
           p < q, p + Len(t) <= q, Occurrences(x, t) = {p, q}
    PROVE  HasFirstTwo(x, t, p, q)
<1> DEFINE locas == SXStringSubCStringLocations(x, t)
           pieces == SXStringSubStringsTrimmedByString(x, t)
<1>1. Lists(locas, {p, q})
  BY LocationsList
<1>2. Len(locas) = 2 /\ locas[1] = p /\ locas[2] = q
  BY <1>1, TwoListed
<1>3. Cuttable(x, t)
  <2>1. Len(t) \in Nat
    OBVIOUS
  <2>2. Apart(x, t, Len(t))
    BY <2>1 DEF Apart
  <2>3. QED
    BY <2>2, CuttableIffApart
<1>4. Pieces(x, t) = 3
  BY <1>2 DEF Pieces
<1>5. /\ PieceFrom(x, t, 1) = 0 /\ PieceTo(x, t, 1) = p
      /\ PieceFrom(x, t, 2) = p + Len(t) /\ PieceTo(x, t, 2) = q
  BY <1>2 DEF PieceFrom, PieceTo
<1>6. \A i \in 1..Pieces(x, t) : pieces[i] = Part(x, PieceFrom(x, t, i), PieceTo(x, t, i))
  BY <1>3, TrimmedIs
<1>7. 1 \in 1..Pieces(x, t) /\ 2 \in 1..Pieces(x, t)
  BY <1>4
<1> HIDE DEF locas, pieces
<1>8. pieces[1] = Part(x, 0, p) /\ pieces[2] = Part(x, p + Len(t), q)
  BY <1>5, <1>6, <1>7
<1>9. QED
  BY <1>3, <1>8 DEF HasFirstTwo, pieces

-----------------------------------------------------------------------------
(* What a removing loop keeps.                                             *)

\* A family of sets that every turn goes on along holds the string in the end.
LEMMA RemovingKeeps ==
    ASSUME NEW C, NEW s \in Seq(C), NEW t \in Seq(C), NEW F, s \in F[0],
           \A k \in 1..Len(s) : \A str \in F[k - 1] : str \in Seq(C) => RemoveTurn(t, str, k) \in F[k]
    PROVE  /\ SXStringRemoveOcurrenceOfCString(s, t) \in F[Len(s)]
           /\ SXStringRemoveOcurrenceOfCString(s, t) \in Seq(C)
<1> DEFINE f == Removing(s, t)
           n == Len(s)
           S == {k \in 0..n : f[k] \in F[k]}
<1>1. /\ f \in [0..n -> Seq(C)] /\ f[0] = s
      /\ \A k \in 1..n : f[k] = RemoveTurn(t, f[k - 1], k)
      /\ SXStringRemoveOcurrencesOfCStrings(s, t) = f[n]
  BY RemovingIs
<1>2. n \in Nat
  OBVIOUS
<1> HIDE DEF f, n
<1>3. 0 \in S
  BY <1>1, <1>2
<1>4. ASSUME NEW k \in 1..n, k - 1 \in S PROVE k \in S
  <2>1. f[k - 1] \in F[k - 1] /\ k - 1 \in 0..n /\ k \in 0..n
    BY <1>2, <1>4
  <2>2. f[k - 1] \in Seq(C)
    BY <1>1, <2>1
  <2>3. RemoveTurn(t, f[k - 1], k) \in F[k]
    BY <2>1, <2>2 DEF n
  <2>4. QED
    BY <1>1, <2>1, <2>3
<1>5. 0..n \subseteq S
  <2> HIDE DEF S
  <2>1. QED
    BY <1>2, <1>3, <1>4, UpTo
<1>6. n \in 0..n
  BY <1>2
<1>7. f[n] \in F[n] /\ f[n] \in Seq(C)
  BY <1>1, <1>5, <1>6
<1>8. QED
  BY <1>1, <1>7 DEF n, SXStringRemoveOcurrencesOfCStrings

\* What a removal leaves stands where it was, or further to the left by what is gone.
Leaves(C, str, t, p, u) ==
    /\ u \in Seq(C) /\ p + Len(t) <= Len(str) /\ Len(u) = Len(str) - Len(t)
    /\ \A i \in 1..p : u[i] = str[i]
    /\ \A i \in p + 1..Len(u) : u[i] = str[i + Len(t)]
    /\ \A j \in 1..Len(t) : str[p + j] = t[j]

\* That is what a removal does.
LEMMA RemovalLeaves ==
    ASSUME NEW C, NEW str \in Seq(C), NEW t \in Seq(C), NEW p \in Nat, MatchesAt(str, p, t)
    PROVE  Leaves(C, str, t, p, SXStringRemovingRange(str, p, Len(t)))
<1> DEFINE m == Len(t)
           n == Len(str)
           a == Part(str, 0, p)
           b == Part(str, p + m, n)
           u == a \o b
<1>1. m \in Nat /\ n \in Nat
  OBVIOUS
<1>2. p + m <= n /\ \A j \in 1..m : str[p + j] = t[j]
  <2>1. Reads(str, p, t)
    BY MatchReads, Zenon
  <2>2. QED
    BY <2>1 DEF Reads
<1>3. SXStringRemovingRange(str, p, m) = u
  BY DEF SXStringRemovingRange, Part
<1> HIDE DEF m, n
<1>4. 0 <= p /\ p <= n /\ p + m \in Nat /\ n <= n /\ 0 \in Nat
  BY <1>1, <1>2
<1>5. a \in Seq(C) /\ Len(a) = p - 0 /\ \A k \in 1..p - 0 : a[k] = str[0 + k]
  BY <1>4, PartIs DEF n
<1>6. b \in Seq(C) /\ Len(b) = n - (p + m) /\ \A k \in 1..n - (p + m) : b[k] = str[(p + m) + k]
  <2> DEFINE e == p + m
  <2>1. e \in Nat /\ n \in Nat /\ e <= n /\ n <= Len(str)
    BY <1>1, <1>2, <1>4 DEF n
  <2> HIDE DEF e
  <2>2. Part(str, e, n) \in Seq(C) /\ Len(Part(str, e, n)) = n - e
        /\ \A k \in 1..n - e : Part(str, e, n)[k] = str[e + k]
    BY <2>1, PartIs
  <2>3. QED
    BY <2>2 DEF e, b
<1> HIDE DEF a, b
<1>7. /\ u \in Seq(C) /\ Len(u) = Len(a) + Len(b)
      /\ \A i \in 1..Len(a) : u[i] = a[i]
      /\ \A i \in Len(a) + 1..Len(a) + Len(b) : u[i] = b[i - Len(a)]
  <2>1. a \in Seq(C) /\ b \in Seq(C)
    BY <1>5, <1>6
  <2>2. QED
    BY <2>1
<1> HIDE DEF u
<1>8. Len(u) = n - m /\ Len(a) = p
  BY <1>1, <1>2, <1>5, <1>6, <1>7
<1>9. \A i \in 1..p : u[i] = str[i]
  BY <1>5, <1>7, <1>8
<1>10. ASSUME NEW i \in p + 1..Len(u) PROVE u[i] = str[i + m]
  <2>1. i - p \in 1..n - (p + m) /\ (p + m) + (i - p) = i + m /\ i \in Len(a) + 1..Len(a) + Len(b)
    BY <1>1, <1>2, <1>7, <1>8
  <2>2. QED
    BY <1>6, <1>7, <1>8, <2>1
<1>11. QED
  BY <1>2, <1>3, <1>7, <1>8, <1>9, <1>10 DEF Leaves, m, n

\* A turn leaves the string or removes an occurrence.
LEMMA TurnLeaves ==
    ASSUME NEW C, NEW str \in Seq(C), NEW t \in Seq(C), NEW k \in Nat, k >= 1
    PROVE  \/ RemoveTurn(t, str, k) = str /\ (k - 1 < Len(str) => ~MatchesAt(str, k - 1, t))
           \/ k - 1 < Len(str) /\ MatchesAt(str, k - 1, t) /\ Leaves(C, str, t, k - 1, RemoveTurn(t, str, k))
<1>1. k - 1 \in Nat
  OBVIOUS
<1>2. CASE k - 1 < Len(str) /\ MatchesAt(str, k - 1, t)
  <2>1. Leaves(C, str, t, k - 1, SXStringRemovingRange(str, k - 1, Len(t)))
    BY <1>1, <1>2, RemovalLeaves
  <2>2. QED
    BY <1>2, <2>1 DEF RemoveTurn
<1>3. CASE ~(k - 1 < Len(str) /\ MatchesAt(str, k - 1, t))
  BY <1>3 DEF RemoveTurn
<1>4. QED
  BY <1>2, <1>3

\* Where nothing occurs nothing is removed.
LEMMA NothingRemoved ==
    ASSUME NEW C, NEW x \in Seq(C), NEW t \in Seq(C), t # <<>>, Occurrences(x, t) = {}
    PROVE  SXStringRemoveOcurrenceOfCString(x, t) = x
<1> DEFINE F == [k \in 0..Len(x) |-> {x}]
<1>1. Len(x) \in Nat
  OBVIOUS
<1>2. x \in F[0]
  BY <1>1
<1>3. ASSUME NEW k \in 1..Len(x), NEW str \in F[k - 1] PROVE RemoveTurn(t, str, k) \in F[k]
  <2>1. str = x /\ F[k] = {x} /\ k - 1 \in 0..Len(x) - 1
    BY <1>1
  <2>2. ~MatchesAt(x, k - 1, t)
    BY <2>1 DEF Occurrences
  <2>3. QED
    BY <2>1, <2>2 DEF RemoveTurn
<1> HIDE DEF F
<1>4. SXStringRemoveOcurrenceOfCString(x, t) \in F[Len(x)]
  BY <1>2, <1>3, RemovingKeeps
<1>5. Len(x) \in 0..Len(x)
  BY <1>1
<1>6. QED
  BY <1>4, <1>5 DEF F

\* c is nowhere in x; it is in x twice; it is in x before d.
Lacks(x, c)        == \A i \in 1..Len(x) : x[i] # c
HasPair(x, c)      == \E i, j \in 1..Len(x) : i < j /\ x[i] = c /\ x[j] = c
HasBefore(x, c, d) == \E i \in 1..Len(x) : i < d /\ x[i] = c

\* A character the string does not have is not there afterwards.
LEMMA NothingNew ==
    ASSUME NEW C, NEW x \in Seq(C), NEW t \in Seq(C), NEW c, Lacks(x, c)
    PROVE  Lacks(SXStringRemoveOcurrenceOfCString(x, t), c)
<1> DEFINE A == {u \in Seq(C) : \A i \in 1..Len(u) : u[i] # c}
           F == [k \in 0..Len(x) |-> A]
<1>1. Len(x) \in Nat /\ x \in A
  BY DEF Lacks
<1>2. ASSUME NEW k \in 1..Len(x), NEW str \in A PROVE RemoveTurn(t, str, k) \in A
  <2> DEFINE u == RemoveTurn(t, str, k)
             p == k - 1
  <2>1. p \in Nat /\ k \in Nat /\ k >= 1 /\ str \in Seq(C) /\ Len(t) \in Nat /\ Len(str) \in Nat
    OBVIOUS
  <2>2. u = str \/ Leaves(C, str, t, p, u)
    BY <2>1, TurnLeaves
  <2> HIDE DEF u, p
  <2>3. ASSUME Leaves(C, str, t, p, u), NEW i \in 1..Len(u) PROVE u[i] # c
    <3>1. Len(u) = Len(str) - Len(t) /\ p + Len(t) <= Len(str)
      BY <2>3 DEF Leaves
    <3>2. CASE i <= p
      <4>1. i \in 1..p /\ i \in 1..Len(str)
        BY <2>1, <3>1, <3>2
      <4>2. u[i] = str[i]
        BY <2>3, <4>1 DEF Leaves
      <4>3. QED
        BY <4>1, <4>2
    <3>3. CASE ~(i <= p)
      <4>1. i \in p + 1..Len(u) /\ i + Len(t) \in 1..Len(str)
        BY <2>1, <3>1, <3>3
      <4>2. u[i] = str[i + Len(t)]
        BY <2>3, <4>1 DEF Leaves
      <4>3. QED
        BY <4>1, <4>2
    <3>4. QED
      BY <3>2, <3>3
  <2>4. Leaves(C, str, t, p, u) => u \in Seq(C)
    BY DEF Leaves
  <2>5. u \in A
    BY <2>2, <2>3, <2>4
  <2>6. QED
    BY <2>5 DEF u
<1> HIDE DEF A
<1>3. /\ x \in F[0] /\ \A k \in 0..Len(x) : F[k] = A
      /\ Len(x) \in 0..Len(x) /\ \A k \in 1..Len(x) : k - 1 \in 0..Len(x) /\ k \in 0..Len(x)
  BY <1>1
<1> HIDE DEF F
<1>4. \A k \in 1..Len(x) : \A str \in F[k - 1] : RemoveTurn(t, str, k) \in F[k]
  BY <1>2, <1>3
<1>5. SXStringRemoveOcurrenceOfCString(x, t) \in F[Len(x)]
  BY <1>3, <1>4, RemovingKeeps
<1>6. QED
  BY <1>3, <1>5 DEF A, Lacks

\* A character that is not removed stays, at its position or further to the left.
LEMMA StaysLeft ==
    ASSUME NEW C, NEW str \in Seq(C), NEW t \in Seq(C), NEW p \in Nat, NEW u,
           Leaves(C, str, t, p, u), NEW i \in 1..Len(str), \A j \in 1..Len(t) : t[j] # str[i]
    PROVE  \/ i <= p /\ i \in 1..Len(u) /\ u[i] = str[i]
           \/ i > p + Len(t) /\ i - Len(t) \in 1..Len(u) /\ u[i - Len(t)] = str[i]
<1>1. /\ Len(u) = Len(str) - Len(t) /\ p + Len(t) <= Len(str)
      /\ Len(t) \in Nat /\ Len(str) \in Nat
  BY DEF Leaves
<1>2. CASE i <= p
  <2>1. i \in 1..p /\ i \in 1..Len(u)
    BY <1>1, <1>2
  <2>2. QED
    BY <1>2, <2>1 DEF Leaves
<1>3. CASE i > p /\ i <= p + Len(t)
  <2>1. i - p \in 1..Len(t) /\ p + (i - p) = i
    BY <1>1, <1>3
  <2>2. str[i] = t[i - p]
    BY <2>1 DEF Leaves
  <2>3. QED
    BY <2>1, <2>2
<1>4. CASE i > p + Len(t)
  <2>1. i - Len(t) \in p + 1..Len(u) /\ i - Len(t) \in 1..Len(u) /\ (i - Len(t)) + Len(t) = i
    BY <1>1, <1>4
  <2>2. u[i - Len(t)] = str[i]
    BY <2>1 DEF Leaves
  <2>3. QED
    BY <1>4, <2>1, <2>2
<1>5. QED
  BY <1>1, <1>2, <1>3, <1>4

\* Two of a character that is not removed stay two.
LEMMA TwoStay ==
    ASSUME NEW C, NEW x \in Seq(C), NEW t \in Seq(C), NEW c, Lacks(t, c), HasPair(x, c)
    PROVE  HasPair(SXStringRemoveOcurrenceOfCString(x, t), c)
<1> DEFINE A == {u \in Seq(C) : \E i, j \in 1..Len(u) : i < j /\ u[i] = c /\ u[j] = c}
           F == [k \in 0..Len(x) |-> A]
<1>1. Len(x) \in Nat /\ x \in A
  BY DEF HasPair
<1>lacks. \A j \in 1..Len(t) : t[j] # c
  BY DEF Lacks
<1>2. ASSUME NEW k \in 1..Len(x), NEW str \in A PROVE RemoveTurn(t, str, k) \in A
  <2> DEFINE u == RemoveTurn(t, str, k)
             p == k - 1
  <2>1. p \in Nat /\ k \in Nat /\ k >= 1 /\ str \in Seq(C) /\ Len(t) \in Nat /\ Len(str) \in Nat
    OBVIOUS
  <2>2. u = str \/ Leaves(C, str, t, p, u)
    BY <2>1, TurnLeaves
  <2> HIDE DEF u, p
  <2>3. ASSUME Leaves(C, str, t, p, u) PROVE u \in A
    <3>1. PICK i \in 1..Len(str) : \E j \in 1..Len(str) : i < j /\ str[i] = c /\ str[j] = c
      OBVIOUS
    <3>2. PICK j \in 1..Len(str) : i < j /\ str[i] = c /\ str[j] = c
      BY <3>1
    <3> HIDE DEF A
    <3>kept. (\A l \in 1..Len(t) : t[l] # str[i]) /\ \A l \in 1..Len(t) : t[l] # str[j]
      BY <1>lacks, <3>2
    <3>3. \/ i <= p /\ i \in 1..Len(u) /\ u[i] = str[i]
          \/ i > p + Len(t) /\ i - Len(t) \in 1..Len(u) /\ u[i - Len(t)] = str[i]
      BY <2>1, <2>3, <3>kept, StaysLeft
    <3>4. \/ j <= p /\ j \in 1..Len(u) /\ u[j] = str[j]
          \/ j > p + Len(t) /\ j - Len(t) \in 1..Len(u) /\ u[j - Len(t)] = str[j]
      BY <2>1, <2>3, <3>kept, StaysLeft
    <3>5. \E a, b \in 1..Len(u) : a < b /\ u[a] = c /\ u[b] = c
      <4>1. i <= p /\ j > p + Len(t) => i < j - Len(t)
        BY <2>1
      <4>2. i < j => i - Len(t) < j - Len(t)
        BY <2>1
      <4>3. ~(i > p + Len(t) /\ j <= p)
        BY <2>1, <3>2
      <4>4. QED
        BY <3>2, <3>3, <3>4, <4>1, <4>2, <4>3
    <3>6. u \in Seq(C)
      BY <2>3 DEF Leaves
    <3>7. QED
      BY <3>5, <3>6 DEF A
  <2>4. u \in A
    BY <2>2, <2>3
  <2>5. QED
    BY <2>4 DEF u
<1> HIDE DEF A
<1>3. /\ x \in F[0] /\ \A k \in 0..Len(x) : F[k] = A
      /\ Len(x) \in 0..Len(x) /\ \A k \in 1..Len(x) : k - 1 \in 0..Len(x) /\ k \in 0..Len(x)
  BY <1>1
<1> HIDE DEF F
<1>4. \A k \in 1..Len(x) : \A str \in F[k - 1] : RemoveTurn(t, str, k) \in F[k]
  BY <1>2, <1>3
<1>5. SXStringRemoveOcurrenceOfCString(x, t) \in F[Len(x)]
  BY <1>3, <1>4, RemovingKeeps
<1>6. QED
  BY <1>3, <1>5 DEF A, HasPair

\* A character behind an occurrence ends up further to the left.
LEMMA MovesLeft ==
    ASSUME NEW C, NEW x \in Seq(C), NEW t \in Seq(C), t # <<>>,
           NEW c, Lacks(t, c), NEW d \in 1..Len(x), x[d] = c,
           NEW p \in Nat, p < d, MatchesAt(x, p, t)
    PROVE  HasBefore(SXStringRemoveOcurrenceOfCString(x, t), c, d)
<1> DEFINE A == {u \in Seq(C) : \E i \in 1..Len(u) : i < d /\ u[i] = c}
           F == [k \in 0..Len(x) |-> IF k <= p THEN A \cup {x} ELSE A]
<1>lacks. \A j \in 1..Len(t) : t[j] # c
  BY DEF Lacks
<1>1. Len(x) \in Nat /\ Len(t) \in Nat /\ Len(t) > 0 /\ d \in Nat /\ d <= Len(x)
  OBVIOUS
<1>2. ASSUME NEW k \in 1..Len(x), NEW str \in Seq(C), NEW q \in Nat,
             Leaves(C, str, t, q, RemoveTurn(t, str, k)),
             str \in A \/ (str = x /\ q <= p)
      PROVE  RemoveTurn(t, str, k) \in A
  <2> DEFINE u == RemoveTurn(t, str, k)
  <2>1. u \in Seq(C) /\ Leaves(C, str, t, q, u) /\ Len(str) \in Nat
    BY <1>2 DEF Leaves
  <2> HIDE DEF u
  <2>2. CASE str \in A
    <3>1. PICK i \in 1..Len(str) : i < d /\ str[i] = c
      BY <2>2
    <3> HIDE DEF A
    <3>2. \/ i <= q /\ i \in 1..Len(u) /\ u[i] = str[i]
          \/ i > q + Len(t) /\ i - Len(t) \in 1..Len(u) /\ u[i - Len(t)] = str[i]
      BY <1>lacks, <2>1, <3>1, StaysLeft
    <3>3. i - Len(t) < d
      BY <1>1, <3>1
    <3>4. \E j \in 1..Len(u) : j < d /\ u[j] = c
      BY <3>1, <3>2, <3>3
    <3>5. QED
      BY <2>1, <3>4 DEF A, u
  <2>3. CASE str = x /\ q <= p
    <3> HIDE DEF A
    <3>1. d \in 1..Len(str) /\ str[d] = c /\ ~(d <= q)
      BY <1>1, <2>3
    <3>kept. d \in 1..Len(str) /\ \A j \in 1..Len(t) : t[j] # str[d]
      BY <1>lacks, <3>1
    <3>2. \/ d <= q /\ d \in 1..Len(u) /\ u[d] = str[d]
          \/ d > q + Len(t) /\ d - Len(t) \in 1..Len(u) /\ u[d - Len(t)] = str[d]
      BY <2>1, <3>kept, StaysLeft
    <3>3. d - Len(t) < d
      BY <1>1
    <3>4. \E j \in 1..Len(u) : j < d /\ u[j] = c
      BY <3>1, <3>2, <3>3
    <3>5. QED
      BY <2>1, <3>4 DEF A, u
  <2>4. QED
    BY <1>2, <2>2, <2>3
<1> HIDE DEF A
<1>3. ASSUME NEW k \in 1..Len(x), NEW str \in F[k - 1], str \in Seq(C)
      PROVE  RemoveTurn(t, str, k) \in F[k]
  <2> DEFINE q == k - 1
             u == RemoveTurn(t, str, k)
  <2>1. /\ q \in Nat /\ q \in 0..Len(x) /\ k \in Nat /\ k >= 1 /\ k \in 0..Len(x) /\ q < Len(x)
        /\ k = q + 1
    BY <1>1
  <2>2. str \in A \/ (str = x /\ q <= p)
    BY <1>3, <2>1
  <2>3. A \subseteq F[k] /\ (k <= p => x \in F[k])
    BY <2>1
  <2> HIDE DEF F
  <2>4. \/ u = str /\ (q < Len(str) => ~MatchesAt(str, q, t))
        \/ Leaves(C, str, t, q, u)
    BY <1>3, <2>1, TurnLeaves
  <2> HIDE DEF q, u
  <2>5. CASE Leaves(C, str, t, q, u)
    <3>1. u \in A
      BY <1>2, <1>3, <2>1, <2>2, <2>5 DEF u
    <3>2. QED
      BY <2>3, <3>1 DEF u
  <2>6. CASE u = str /\ str \in A
    BY <2>3, <2>6 DEF u
  <2>7. CASE u = str /\ str = x /\ q <= p /\ (q < Len(str) => ~MatchesAt(str, q, t))
    <3>1. q # p
      BY <2>1, <2>7
    <3>2. k <= p
      BY <2>1, <2>7, <3>1
    <3>3. QED
      BY <2>3, <2>7, <3>2 DEF u
  <2>8. QED
    BY <2>2, <2>4, <2>5, <2>6, <2>7
<1>4. x \in F[0] /\ F[Len(x)] = A
  <2>1. 0 \in 0..Len(x) /\ 0 <= p /\ Len(x) \in 0..Len(x) /\ ~(Len(x) <= p)
    BY <1>1
  <2>2. QED
    BY <2>1
<1> HIDE DEF F
<1>5. SXStringRemoveOcurrenceOfCString(x, t) \in F[Len(x)]
  BY <1>3, <1>4, RemovingKeeps
<1>6. QED
  BY <1>4, <1>5 DEF A, HasBefore

-----------------------------------------------------------------------------
(* The parts of a request.                                                 *)

\* The characters requests are written with, and the words between them.
Blank  == " "
Colon  == ":"
Slash  == "/"
Return == "\r"
Feed   == "\n"
Letter == "H"

Punctuation == {Blank, Colon, Slash, Return, Feed, Letter}

Word(C, w) == w \in Seq(C) /\ \A i \in 1..Len(w) : w[i] # Blank /\ w[i] # Slash /\ w[i] # Return

\* What ends a part of a request is no other character of it.
LEMMA CharactersDiffer ==
    /\ Blank # Slash /\ Blank # Return /\ Blank # Feed /\ Blank # Colon /\ Blank # Letter
    /\ Slash # Return /\ Slash # Feed /\ Slash # Colon /\ Slash # Letter
    /\ Return # Feed /\ Return # Colon /\ Return # Letter
  BY DEF Blank, Colon, Slash, Return, Feed, Letter

Line(m, s, h)    == m \o Space \o s \o Sep \o h \o Path
Short(m)         == m \o Space \o Path
HeaderLine(h)    == <<"H">> \o Space \o h
BehindLine(h)    == CRLF \o <<"H">> \o Space \o h \o CRLF

\* The marks between the parts, as strings over an alphabet that has them.
LEMMA PunctuationIs ==
    ASSUME NEW C, Punctuation \subseteq C
    PROVE  /\ Space \in Seq(C) /\ Len(Space) = 1 /\ Space[1] = Blank
           /\ CRLF \in Seq(C) /\ Len(CRLF) = 2 /\ CRLF[1] = Return /\ CRLF[2] = Feed
           /\ Sep \in Seq(C) /\ Len(Sep) = 3 /\ Sep[1] = Colon /\ Sep[2] = Slash /\ Sep[3] = Slash
           /\ Path \in Seq(C) /\ Len(Path) = 1 /\ Path[1] = Slash
           /\ <<"H">> \in Seq(C) /\ Len(<<"H">>) = 1 /\ <<"H">>[1] = Letter
<1>1. \A x \in C : <<x>> \in Seq(C) /\ Len(<<x>>) = 1 /\ <<x>>[1] = x
  OBVIOUS
<1>2. \A x, y \in C : <<x, y>> \in Seq(C) /\ Len(<<x, y>>) = 2 /\ <<x, y>>[1] = x /\ <<x, y>>[2] = y
  OBVIOUS
<1>3. \A x, y, z \in C : /\ <<x, y, z>> \in Seq(C) /\ Len(<<x, y, z>>) = 3
                         /\ <<x, y, z>>[1] = x /\ <<x, y, z>>[2] = y /\ <<x, y, z>>[3] = z
  OBVIOUS
<1>4. Blank \in C /\ Colon \in C /\ Slash \in C /\ Return \in C /\ Feed \in C /\ Letter \in C
  BY DEF Punctuation
<1>5. Space = <<Blank>> /\ CRLF = <<Return, Feed>> /\ Sep = <<Colon, Slash, Slash>>
      /\ Path = <<Slash>> /\ <<"H">> = <<Letter>>
  BY Zenon DEF Space, CRLF, Sep, Path, Blank, Colon, Slash, Return, Feed, Letter
<1>6. Space \in Seq(C) /\ Len(Space) = 1 /\ Space[1] = Blank
  BY <1>1, <1>4, <1>5, Zenon
<1>7. CRLF \in Seq(C) /\ Len(CRLF) = 2 /\ CRLF[1] = Return /\ CRLF[2] = Feed
  BY <1>2, <1>4, <1>5, Zenon
<1>8. Sep \in Seq(C) /\ Len(Sep) = 3 /\ Sep[1] = Colon /\ Sep[2] = Slash /\ Sep[3] = Slash
  BY <1>3, <1>4, <1>5, Zenon
<1>9. Path \in Seq(C) /\ Len(Path) = 1 /\ Path[1] = Slash
  BY <1>1, <1>4, <1>5, Zenon
<1>10. <<"H">> \in Seq(C) /\ Len(<<"H">>) = 1 /\ <<"H">>[1] = Letter
  BY <1>1, <1>4, <1>5, Zenon
<1>11. QED
  BY <1>6, <1>7, <1>8, <1>9, <1>10

\* x is u with v behind it.
Joins(C, u, v, x) ==
    /\ x \in Seq(C) /\ Len(x) = Len(u) + Len(v)
    /\ \A i \in 1..Len(u) : x[i] = u[i]
    /\ \A i \in 1..Len(v) : x[Len(u) + i] = v[i]

\* That is what a concatenation is.
LEMMA ConcatJoins ==
    ASSUME NEW C, NEW u \in Seq(C), NEW v \in Seq(C)
    PROVE  Joins(C, u, v, u \o v) /\ u \o v \in Seq(C)
  BY DEF Joins

\* l is the first line of a request of m, s and h.
IsLine(C, m, s, h, l) ==
    /\ l \in Seq(C) /\ Len(l) = Len(m) + Len(s) + Len(h) + 5
    /\ \A i \in 1..Len(m) : l[i] = m[i]
    /\ l[Len(m) + 1] = Blank
    /\ \A i \in 1..Len(s) : l[Len(m) + 1 + i] = s[i]
    /\ l[Len(m) + Len(s) + 2] = Colon /\ l[Len(m) + Len(s) + 3] = Slash /\ l[Len(m) + Len(s) + 4] = Slash
    /\ \A i \in 1..Len(h) : l[Len(m) + Len(s) + 4 + i] = h[i]
    /\ l[Len(m) + Len(s) + Len(h) + 5] = Slash

\* The first line of a request is such a string.
LEMMA LineIs ==
    ASSUME NEW C, Punctuation \subseteq C, NEW m \in Seq(C), NEW s \in Seq(C), NEW h \in Seq(C)
    PROVE  IsLine(C, m, s, h, Line(m, s, h))
<1> DEFINE M == Len(m)
           S == Len(s)
           H == Len(h)
           a == m \o Space
           b == a \o s
           c == b \o Sep
           d == c \o h
           e == d \o Path
<1>1. M \in Nat /\ S \in Nat /\ H \in Nat
  OBVIOUS
<1>2. /\ Space \in Seq(C) /\ Sep \in Seq(C) /\ Path \in Seq(C)
      /\ Len(Space) = 1 /\ Space[1] = Blank
      /\ Len(Sep) = 3 /\ Sep[1] = Colon /\ Sep[2] = Slash /\ Sep[3] = Slash
      /\ Len(Path) = 1 /\ Path[1] = Slash
  BY PunctuationIs
<1>3. Joins(C, m, Space, a) /\ a \in Seq(C)
  BY <1>2, ConcatJoins, Zenon
<1> HIDE DEF a
<1>4. Joins(C, a, s, b) /\ b \in Seq(C)
  BY <1>3, ConcatJoins, Zenon
<1> HIDE DEF b
<1>5. Joins(C, b, Sep, c) /\ c \in Seq(C)
  BY <1>2, <1>4, ConcatJoins, Zenon
<1> HIDE DEF c
<1>6. Joins(C, c, h, d) /\ d \in Seq(C)
  BY <1>5, ConcatJoins, Zenon
<1> HIDE DEF d
<1>7. Joins(C, d, Path, e) /\ e \in Seq(C)
  BY <1>2, <1>6, ConcatJoins, Zenon
<1> HIDE DEF e, M, S, H
<1>8. Len(a) = M + 1 /\ a[M + 1] = Blank /\ \A i \in 1..M : a[i] = m[i]
  BY <1>1, <1>2, <1>3 DEF Joins, M
<1>9. Len(b) = M + 1 + S /\ (\A i \in 1..M + 1 : b[i] = a[i]) /\ \A i \in 1..S : b[M + 1 + i] = s[i]
  BY <1>1, <1>4, <1>8 DEF Joins, S
<1>10. Len(c) = M + S + 4 /\ \A i \in 1..M + 1 + S : c[i] = b[i]
  BY <1>1, <1>2, <1>5, <1>9 DEF Joins
<1>11. c[M + S + 2] = Colon /\ c[M + S + 3] = Slash /\ c[M + S + 4] = Slash
  <2>1. 1 \in 1..Len(Sep) /\ 2 \in 1..Len(Sep) /\ 3 \in 1..Len(Sep)
    BY <1>2
  <2>2. c[Len(b) + 1] = Colon /\ c[Len(b) + 2] = Slash /\ c[Len(b) + 3] = Slash
    BY <1>2, <1>5, <2>1 DEF Joins
  <2>3. Len(b) + 1 = M + S + 2 /\ Len(b) + 2 = M + S + 3 /\ Len(b) + 3 = M + S + 4
    BY <1>1, <1>9
  <2>4. QED
    BY <2>2, <2>3
<1>12. /\ Len(d) = M + S + H + 4
       /\ \A i \in 1..M + S + 4 : d[i] = c[i]
       /\ \A i \in 1..H : d[M + S + 4 + i] = h[i]
  BY <1>1, <1>6, <1>10 DEF Joins, H
<1>13. Len(e) = M + S + H + 5 /\ \A i \in 1..M + S + H + 4 : e[i] = d[i]
  BY <1>1, <1>2, <1>7, <1>12 DEF Joins
<1>14. e[M + S + H + 5] = Slash
  <2>1. 1 \in 1..Len(Path) /\ Len(d) + 1 = M + S + H + 5
    BY <1>1, <1>2, <1>12
  <2>2. e[Len(d) + 1] = Slash
    BY <1>2, <1>7, <2>1 DEF Joins
  <2>3. QED
    BY <2>1, <2>2
<1>15. \A i \in 1..M + S + 4 : e[i] = c[i]
  BY <1>1, <1>12, <1>13
<1>16. \A i \in 1..M + 1 + S : e[i] = b[i]
  BY <1>1, <1>10, <1>15
<1>17. \A i \in 1..M + 1 : e[i] = a[i]
  BY <1>1, <1>9, <1>16
<1>18. \A i \in 1..M : e[i] = m[i]
  BY <1>1, <1>8, <1>17
<1>19. e[M + 1] = Blank
  BY <1>1, <1>8, <1>17
<1>20. ASSUME NEW i \in 1..S PROVE e[M + 1 + i] = s[i]
  <2>1. M + 1 + i \in 1..M + 1 + S
    BY <1>1
  <2>2. QED
    BY <1>9, <1>16, <2>1
<1>21. e[M + S + 2] = Colon /\ e[M + S + 3] = Slash /\ e[M + S + 4] = Slash
  BY <1>1, <1>11, <1>15
<1>22. ASSUME NEW i \in 1..H PROVE e[M + S + 4 + i] = h[i]
  <2>1. M + S + 4 + i \in 1..M + S + H + 4
    BY <1>1
  <2>2. QED
    BY <1>12, <1>13, <2>1
<1>23. Line(m, s, h) = e
  BY DEF Line, a, b, c, d, e
<1>24. IsLine(C, m, s, h, e)
  BY <1>7, <1>13, <1>14, <1>18, <1>19, <1>20, <1>21, <1>22 DEF IsLine, M, S, H
<1>25. QED
  BY <1>23, <1>24, Zenon

\* x is u with v and then w behind it.
JoinsTwo(C, u, v, w, x) ==
    /\ x \in Seq(C) /\ Len(x) = Len(u) + Len(v) + Len(w)
    /\ \A i \in 1..Len(u) : x[i] = u[i]
    /\ \A i \in 1..Len(v) : x[Len(u) + i] = v[i]
    /\ \A i \in 1..Len(w) : x[Len(u) + Len(v) + i] = w[i]

\* The same with three strings.
LEMMA ConcatJoinsTwo ==
    ASSUME NEW C, NEW u \in Seq(C), NEW v \in Seq(C), NEW w \in Seq(C)
    PROVE  JoinsTwo(C, u, v, w, u \o v \o w) /\ u \o v \o w \in Seq(C)
<1> DEFINE a == u \o v
           b == a \o w
           U == Len(u)
           V == Len(v)
<1>1. U \in Nat /\ V \in Nat /\ Len(w) \in Nat
  OBVIOUS
<1>2. Joins(C, u, v, a) /\ a \in Seq(C)
  BY ConcatJoins, Zenon
<1> HIDE DEF a
<1>3. Joins(C, a, w, b) /\ b \in Seq(C)
  BY <1>2, ConcatJoins, Zenon
<1> HIDE DEF b, U, V
<1>4. Len(a) = U + V /\ (\A i \in 1..U : a[i] = u[i]) /\ \A i \in 1..V : a[U + i] = v[i]
  BY <1>2 DEF Joins, U, V
<1>5. /\ Len(b) = U + V + Len(w)
      /\ \A i \in 1..U + V : b[i] = a[i]
      /\ \A i \in 1..Len(w) : b[U + V + i] = w[i]
  BY <1>1, <1>3, <1>4 DEF Joins
<1>6. \A i \in 1..U : b[i] = u[i]
  BY <1>1, <1>4, <1>5
<1>7. ASSUME NEW i \in 1..V PROVE b[U + i] = v[i]
  <2>1. U + i \in 1..U + V
    BY <1>1
  <2>2. QED
    BY <1>4, <1>5, <2>1
<1>8. QED
  BY <1>3, <1>5, <1>6, <1>7 DEF JoinsTwo, U, V, a, b

\* Length and characters of the line the comment promises ...
LEMMA ShortIs ==
    ASSUME NEW C, Punctuation \subseteq C, NEW m \in Seq(C)
    PROVE  /\ Short(m) \in Seq(C) /\ Len(Short(m)) = Len(m) + 2
           /\ \A i \in 1..Len(m) : Short(m)[i] = m[i]
           /\ Short(m)[Len(m) + 1] = Blank /\ Short(m)[Len(m) + 2] = Slash
<1> DEFINE x == m \o Space \o Path
<1>1. /\ Space \in Seq(C) /\ Len(Space) = 1 /\ Space[1] = Blank
      /\ Path \in Seq(C) /\ Len(Path) = 1 /\ Path[1] = Slash
  BY PunctuationIs
<1>2. JoinsTwo(C, m, Space, Path, x)
  BY <1>1, ConcatJoinsTwo, Zenon
<1> HIDE DEF x
<1>3. Len(m) \in Nat /\ 1 \in 1..1
  OBVIOUS
<1>4. /\ x \in Seq(C) /\ Len(x) = Len(m) + 2 /\ \A i \in 1..Len(m) : x[i] = m[i]
      /\ x[Len(m) + 1] = Blank /\ x[Len(m) + 1 + 1] = Slash
  BY <1>1, <1>2, <1>3 DEF JoinsTwo
<1>5. Len(m) + 1 + 1 = Len(m) + 2
  BY <1>3
<1>6. QED
  BY <1>4, <1>5 DEF Short, x

\* ... of the line with the host name ...
LEMMA HeaderIs ==
    ASSUME NEW C, Punctuation \subseteq C, NEW h \in Seq(C)
    PROVE  /\ HeaderLine(h) \in Seq(C) /\ Len(HeaderLine(h)) = Len(h) + 2
           /\ HeaderLine(h)[1] = Letter /\ HeaderLine(h)[2] = Blank
           /\ \A i \in 1..Len(h) : HeaderLine(h)[2 + i] = h[i]
<1> DEFINE l == <<"H">>
           x == l \o Space \o h
<1>1. /\ Space \in Seq(C) /\ Len(Space) = 1 /\ Space[1] = Blank
      /\ l \in Seq(C) /\ Len(l) = 1 /\ l[1] = Letter
  BY PunctuationIs
<1> HIDE DEF l
<1>2. JoinsTwo(C, l, Space, h, x)
  BY <1>1, ConcatJoinsTwo, Zenon
<1> HIDE DEF x
<1>3. Len(h) \in Nat /\ 1 \in 1..1 /\ 1 + 1 = 2 /\ 1 + 1 + Len(h) = Len(h) + 2
  OBVIOUS
<1>4. /\ x \in Seq(C) /\ Len(x) = 1 + 1 + Len(h) /\ \A i \in 1..Len(h) : x[1 + 1 + i] = h[i]
      /\ x[1] = Letter /\ x[1 + 1] = Blank
  BY <1>1, <1>2, <1>3 DEF JoinsTwo
<1>5. x = HeaderLine(h)
  BY DEF HeaderLine, x, l
<1>6. QED
  BY <1>3, <1>4, <1>5

\* ... and of everything behind the first line.
LEMMA BehindIs ==
    ASSUME NEW C, Punctuation \subseteq C, NEW h \in Seq(C)
    PROVE  LET b == BehindLine(h)
           IN  /\ b \in Seq(C) /\ Len(b) = Len(h) + 6
               /\ b[1] = Return /\ b[2] = Feed /\ b[3] = Letter /\ b[4] = Blank
               /\ \A i \in 1..Len(h) : b[4 + i] = h[i]
               /\ b[Len(h) + 5] = Return /\ b[Len(h) + 6] = Feed
<1> DEFINE l == <<"H">>
           H == Len(h)
           a == CRLF \o l \o Space
           b == a \o h \o CRLF
<1>1. /\ Space \in Seq(C) /\ Len(Space) = 1 /\ Space[1] = Blank
      /\ CRLF \in Seq(C) /\ Len(CRLF) = 2 /\ CRLF[1] = Return /\ CRLF[2] = Feed
      /\ l \in Seq(C) /\ Len(l) = 1 /\ l[1] = Letter
  BY PunctuationIs
<1> HIDE DEF l
<1>2. JoinsTwo(C, CRLF, l, Space, a) /\ a \in Seq(C)
  BY <1>1, ConcatJoinsTwo, Zenon
<1> HIDE DEF a
<1>3. JoinsTwo(C, a, h, CRLF, b) /\ b \in Seq(C)
  BY <1>1, <1>2, ConcatJoinsTwo, Zenon
<1>4. H \in Nat /\ 1 \in 1..1 /\ 1 \in 1..2 /\ 2 \in 1..2
  OBVIOUS
<1> HIDE DEF b, H
<1>5. Len(a) = 4 /\ a[1] = Return /\ a[2] = Feed /\ a[2 + 1] = Letter /\ a[2 + 1 + 1] = Blank
  BY <1>1, <1>2, <1>4 DEF JoinsTwo
<1>6. /\ Len(b) = 4 + H + 2 /\ (\A i \in 1..4 : b[i] = a[i]) /\ (\A i \in 1..H : b[4 + i] = h[i])
      /\ b[4 + H + 1] = Return /\ b[4 + H + 2] = Feed
  BY <1>1, <1>3, <1>4, <1>5 DEF JoinsTwo, H
<1>7. b[1] = Return /\ b[2] = Feed /\ b[3] = Letter /\ b[4] = Blank
  BY <1>5, <1>6
<1>8. 4 + H + 1 = H + 5 /\ 4 + H + 2 = H + 6
  BY <1>4
<1>9. b = BehindLine(h)
  BY DEF BehindLine, a, b, l
<1>10. QED
  BY <1>3, <1>6, <1>7, <1>8, <1>9 DEF H

\* A request and its documented form differ in their first lines only.
LEMMA BehindIsBehind ==
    ASSUME NEW C, Punctuation \subseteq C, NEW x \in Seq(C), NEW h \in Seq(C)
    PROVE  x \o CRLF \o <<"H">> \o Space \o h \o CRLF = x \o BehindLine(h)
<1> DEFINE l == <<"H">>
           a == CRLF \o l
           b == a \o Space
           c == b \o h
<1>1. Space \in Seq(C) /\ CRLF \in Seq(C) /\ l \in Seq(C)
  BY PunctuationIs
<1> HIDE DEF l
<1>2. a \in Seq(C) /\ Regroup(x, CRLF, l)
  BY <1>1, ConcatJoins, Regrouping, Zenon
<1>3. b \in Seq(C) /\ Regroup(x, a, Space)
  <2> HIDE DEF a
  <2>1. QED
    BY <1>1, <1>2, ConcatJoins, Regrouping, Zenon
<1>4. c \in Seq(C) /\ Regroup(x, b, h)
  <2> HIDE DEF b
  <2>1. QED
    BY <1>3, ConcatJoins, Regrouping, Zenon
<1>5. Regroup(x, c, CRLF)
  <2> HIDE DEF c
  <2>1. QED
    BY <1>1, <1>4, Regrouping, Zenon
<1>6. x \o CRLF \o l = x \o a
  BY <1>2, Zenon DEF Regroup
<1>7. x \o a \o Space = x \o b
  BY <1>3, Zenon DEF Regroup
<1>8. x \o b \o h = x \o c
  BY <1>4, Zenon DEF Regroup
<1>9. x \o c \o CRLF = x \o (c \o CRLF)
  BY <1>5, Zenon DEF Regroup
<1>10. BehindLine(h) = c \o CRLF
  BY DEF BehindLine, l
<1> HIDE DEF a, b, c
<1>11. x \o CRLF \o l \o Space \o h \o CRLF = x \o BehindLine(h)
  BY <1>6, <1>7, <1>8, <1>9, <1>10
<1>12. QED
  BY <1>11 DEF l

-----------------------------------------------------------------------------
(* The lines of a text.                                                    *)

\* What stands where in a text.
LEMMA TextIs ==
    ASSUME NEW C, Punctuation \subseteq C, NEW x \in Seq(C), NEW h \in Seq(C)
    PROVE  LET X == Len(x)
               H == Len(h)
               t == x \o BehindLine(h)
           IN  /\ t \in Seq(C) /\ Len(t) = X + H + 6
               /\ \A i \in 1..X : t[i] = x[i]
               /\ t[X + 1] = Return /\ t[X + 2] = Feed /\ t[X + 3] = Letter /\ t[X + 4] = Blank
               /\ \A i \in 1..H : t[X + 4 + i] = h[i]
               /\ t[X + H + 5] = Return /\ t[X + H + 6] = Feed
<1> DEFINE X == Len(x)
           H == Len(h)
           b == BehindLine(h)
           t == x \o b
<1>1. /\ b \in Seq(C) /\ Len(b) = H + 6
      /\ b[1] = Return /\ b[2] = Feed /\ b[3] = Letter /\ b[4] = Blank
      /\ \A i \in 1..H : b[4 + i] = h[i]
      /\ b[H + 5] = Return /\ b[H + 6] = Feed
  BY BehindIs
<1>2. X \in Nat /\ H \in Nat
  OBVIOUS
<1> HIDE DEF b
<1>3. Joins(C, x, b, t)
  BY <1>1, ConcatJoins, Zenon
<1> HIDE DEF t
<1>4. t \in Seq(C) /\ Len(t) = X + H + 6 /\ (\A i \in 1..X : t[i] = x[i]) /\ \A i \in 1..H + 6 : t[X + i] = b[i]
  BY <1>1, <1>2, <1>3 DEF Joins
<1> HIDE DEF X, H
<1>5. t[X + 1] = Return /\ t[X + 2] = Feed /\ t[X + 3] = Letter /\ t[X + 4] = Blank
  <2>1. 1 \in 1..H + 6 /\ 2 \in 1..H + 6 /\ 3 \in 1..H + 6 /\ 4 \in 1..H + 6
    BY <1>2
  <2>2. QED
    BY <1>1, <1>4, <2>1
<1>6. ASSUME NEW i \in 1..H PROVE t[X + 4 + i] = h[i]
  <2>1. 4 + i \in 1..H + 6 /\ X + (4 + i) = X + 4 + i
    BY <1>2
  <2>2. t[X + (4 + i)] = b[4 + i]
    BY <1>4, <2>1
  <2>3. QED
    BY <1>1, <2>1, <2>2
<1>7. t[X + H + 5] = Return /\ t[X + H + 6] = Feed
  <2>1. H + 5 \in 1..H + 6 /\ H + 6 \in 1..H + 6 /\ X + (H + 5) = X + H + 5 /\ X + (H + 6) = X + H + 6
    BY <1>2
  <2>2. t[X + (H + 5)] = b[H + 5] /\ t[X + (H + 6)] = b[H + 6]
    BY <1>4, <2>1
  <2>3. QED
    BY <1>1, <2>1, <2>2
<1>8. QED
  BY <1>4, <1>5, <1>6, <1>7 DEF X, H, t, b

\* Where a mark of two characters occurs, ...
LEMMA TwoRead ==
    ASSUME NEW C, NEW x \in Seq(C), NEW t \in Seq(C), Len(t) = 2, NEW i \in Nat
    PROVE  i \in Occurrences(x, t) <=> i + 2 <= Len(x) /\ x[i + 1] = t[1] /\ x[i + 2] = t[2]
<1>1. MatchesAt(x, i, t) <=> Reads(x, i, t)
  BY MatchReads, Zenon
<1>2. 1..Len(t) = {1, 2}
  OBVIOUS
<1>3. Reads(x, i, t) <=> i + 2 <= Len(x) /\ x[i + 1] = t[1] /\ x[i + 2] = t[2]
  BY <1>2 DEF Reads
<1>4. Len(x) \in Nat
  OBVIOUS
<1>5. i \in Occurrences(x, t) <=> i < Len(x) /\ MatchesAt(x, i, t)
  BY <1>4 DEF Occurrences
<1>6. QED
  BY <1>1, <1>3, <1>4, <1>5

\* ... of one ...
LEMMA OneRead ==
    ASSUME NEW C, NEW x \in Seq(C), NEW t \in Seq(C), Len(t) = 1, NEW i \in Nat
    PROVE  i \in Occurrences(x, t) <=> i + 1 <= Len(x) /\ x[i + 1] = t[1]
<1>1. MatchesAt(x, i, t) <=> Reads(x, i, t)
  BY MatchReads, Zenon
<1>2. 1..Len(t) = {1}
  OBVIOUS
<1>3. Reads(x, i, t) <=> i + 1 <= Len(x) /\ x[i + 1] = t[1]
  BY <1>2 DEF Reads
<1>4. Len(x) \in Nat
  OBVIOUS
<1>5. i \in Occurrences(x, t) <=> i < Len(x) /\ MatchesAt(x, i, t)
  BY <1>4 DEF Occurrences
<1>6. QED
  BY <1>1, <1>3, <1>4, <1>5

\* ... and of three.
LEMMA ThreeRead ==
    ASSUME NEW C, NEW x \in Seq(C), NEW t \in Seq(C), Len(t) = 3, NEW i \in Nat
    PROVE  i \in Occurrences(x, t)
             <=> i + 3 <= Len(x) /\ x[i + 1] = t[1] /\ x[i + 2] = t[2] /\ x[i + 3] = t[3]
<1>1. MatchesAt(x, i, t) <=> Reads(x, i, t)
  BY MatchReads, Zenon
<1>2. 1..Len(t) = {1, 2, 3}
  OBVIOUS
<1>3. Reads(x, i, t) <=> i + 3 <= Len(x) /\ x[i + 1] = t[1] /\ x[i + 2] = t[2] /\ x[i + 3] = t[3]
  BY <1>2 DEF Reads
<1>4. Len(x) \in Nat
  OBVIOUS
<1>5. i \in Occurrences(x, t) <=> i < Len(x) /\ MatchesAt(x, i, t)
  BY <1>4 DEF Occurrences
<1>6. QED
  BY <1>1, <1>3, <1>4, <1>5

\* Occurrences are positions.
LEMMA OccurrencesAreNat ==
    ASSUME NEW C, NEW x \in Seq(C), NEW t
    PROVE  \A i \in Occurrences(x, t) : i \in Nat
<1>1. Len(x) \in Nat
  OBVIOUS
<1>2. QED
  BY <1>1 DEF Occurrences

\* A text whose first line has no carriage return has these two lines.
LEMMA LinesAre ==
    ASSUME NEW C, Punctuation \subseteq C, NEW x \in Seq(C), NEW h, Word(C, h),
           \A i \in 1..Len(x) : x[i] # Return
    PROVE  LET t == x \o BehindLine(h)
           IN  /\ SXStringSubStringsTrimmedByStringDefined(t, CRLF)
               /\ Lines(t)[1] = x /\ Lines(t)[2] = HeaderLine(h)
<1> DEFINE X == Len(x)
           H == Len(h)
           b == BehindLine(h)
           t == x \o b
           q == X + H + 4
<1>1. h \in Seq(C) /\ \A i \in 1..H : h[i] # Return
  BY DEF Word
<1>2. X \in Nat /\ H \in Nat /\ q \in Nat
  BY <1>1
<1>3. b \in Seq(C) /\ Len(b) = H + 6
  BY <1>1, BehindIs
<1>4. /\ t \in Seq(C) /\ Len(t) = X + H + 6
      /\ \A i \in 1..X : t[i] = x[i]
      /\ t[X + 1] = Return /\ t[X + 2] = Feed /\ t[X + 3] = Letter /\ t[X + 4] = Blank
      /\ \A i \in 1..H : t[X + 4 + i] = h[i]
      /\ t[X + H + 5] = Return /\ t[X + H + 6] = Feed
  BY <1>1, TextIs
<1>5. CRLF \in Seq(C) /\ Len(CRLF) = 2 /\ CRLF[1] = Return /\ CRLF[2] = Feed
  BY PunctuationIs
<1> HIDE DEF X, H, b, t
<1>ends. /\ t \in Seq(C) /\ Len(t) = X + H + 6 /\ t[X + 1] = Return /\ t[X + 2] = Feed
         /\ t[X + H + 5] = Return /\ t[X + H + 6] = Feed
  BY <1>4, Zenon
<1>6. Occurrences(t, CRLF) = {X, q}
  <2>1. X \in Occurrences(t, CRLF)
    <3>1. X + 2 <= Len(t)
      BY <1>2, <1>ends
    <3>2. QED
      BY <1>2, <1>ends, <1>5, <3>1, TwoRead
  <2>2. q \in Occurrences(t, CRLF)
    <3>1. q + 1 = X + H + 5 /\ q + 2 = X + H + 6
      BY <1>2
    <3> HIDE DEF q
    <3>2. t[q + 1] = Return /\ t[q + 2] = Feed /\ q + 2 <= Len(t)
      <4>1. t[q + 1] = Return /\ t[q + 2] = Feed
        BY <1>ends, <3>1, Zenon
      <4>2. QED
        BY <1>2, <1>ends, <3>1, <4>1
    <3>3. QED
      BY <1>2, <1>ends, <1>5, <3>2, TwoRead
  <2>3. ASSUME NEW i \in Occurrences(t, CRLF) PROVE i = X \/ i = q
    <3>1. i \in Nat
      BY <1>4, OccurrencesAreNat
    <3>2. i + 2 <= X + H + 6 /\ t[i + 1] = Return
      BY <1>4, <1>5, <3>1, TwoRead
    <3>3. CASE i < X
      <4>1. i + 1 \in 1..X
        BY <1>2, <3>1, <3>3
      <4>2. QED
        BY <1>4, <3>2, <4>1 DEF X
    <3>4. CASE i \in X + 1..X + 3
      <4>1. i + 1 = X + 2 \/ i + 1 = X + 3 \/ i + 1 = X + 4
        BY <1>2, <3>4
      <4>2. QED
        BY <1>4, <3>2, <4>1, CharactersDiffer
    <3>5. CASE i \in X + 4..q - 1
      <4>1. (i + 1) - (X + 4) \in 1..H /\ X + 4 + ((i + 1) - (X + 4)) = i + 1
        BY <1>2, <3>5
      <4>2. QED
        BY <1>1, <1>4, <3>2, <4>1
    <3>6. i <= q
      BY <1>2, <3>1, <3>2
    <3>7. QED
      BY <1>2, <3>1, <3>3, <3>4, <3>5, <3>6
  <2>4. QED
    BY <2>1, <2>2, <2>3
<1>7. X < q /\ X + Len(CRLF) <= q /\ X + Len(CRLF) = X + 2
  BY <1>2, <1>5
<1>8. Cuttable(t, CRLF) /\ Lines(t)[1] = Part(t, 0, X) /\ Lines(t)[2] = Part(t, X + 2, q)
  <2> HIDE DEF q
  <2>1. HasFirstTwo(t, CRLF, X, q)
    BY <1>2, <1>ends, <1>5, <1>6, <1>7, CutTwice
  <2>2. QED
    BY <1>7, <2>1, Zenon DEF HasFirstTwo, Lines
<1>9. SXStringSubStringsTrimmedByStringDefined(t, CRLF)
  BY <1>4, <1>5, <1>8, DefinedIsCuttable
<1>10. Part(t, 0, X) = x
  BY <1>3, PartsOfConcat DEF t, X
<1>11. Part(t, X + 2, q) = HeaderLine(h)
  <2> DEFINE a == X + 2
             p == Part(t, a, q)
             l == HeaderLine(h)
  <2>1. a \in Nat /\ q \in Nat /\ a <= q /\ q <= Len(t) /\ q - a = H + 2
    BY <1>2, <1>ends
  <2>2. p \in Seq(C) /\ Len(p) = q - a /\ \A k \in 1..q - a : p[k] = t[a + k]
    <3> HIDE DEF a, q
    <3>1. QED
      BY <1>ends, <2>1, PartIs, Zenon
  <2>3. l \in Seq(C) /\ Len(l) = H + 2 /\ l[1] = Letter /\ l[2] = Blank /\ \A i \in 1..H : l[2 + i] = h[i]
    BY <1>1, HeaderIs DEF H
  <2> HIDE DEF p, l
  <2>4. Len(p) = H + 2 /\ \A k \in 1..H + 2 : p[k] = t[a + k]
    BY <2>1, <2>2
  <2>5. ASSUME NEW k \in 1..H + 2 PROVE t[a + k] = l[k]
    <3>1. CASE k = 1
      BY <1>2, <1>4, <2>3, <3>1
    <3>2. CASE k = 2
      BY <1>2, <1>4, <2>3, <3>2
    <3>3. CASE k > 2
      <4>1. k - 2 \in 1..H /\ X + 4 + (k - 2) = a + k /\ 2 + (k - 2) = k
        BY <1>2, <3>3
      <4>2. t[X + 4 + (k - 2)] = h[k - 2] /\ l[2 + (k - 2)] = h[k - 2]
        BY <1>4, <2>3, <4>1
      <4>3. QED
        BY <4>1, <4>2
    <3>4. QED
      BY <1>2, <3>1, <3>2, <3>3
  <2> HIDE DEF a, q
  <2>6. p = l
    BY <1>2, <2>2, <2>3, <2>4, <2>5
  <2>7. QED
    BY <2>6 DEF p, l, a
<1>12. QED
  BY <1>8, <1>9, <1>10, <1>11 DEF t, b

\* Where the first line of a request has what.
LEMMA LineHas ==
    ASSUME NEW C, Punctuation \subseteq C, NEW m, NEW s, NEW h, Word(C, m), Word(C, s), Word(C, h)
    PROVE  LET M == Len(m)
               S == Len(s)
               H == Len(h)
               l == Line(m, s, h)
           IN  \A i \in 1..Len(l) : /\ l[i] # Return
                                    /\ l[i] = Blank => i = M + 1
                                    /\ l[i] = Slash => i \in {M + S + 3, M + S + 4, M + S + H + 5}
<1> DEFINE M == Len(m)
           S == Len(s)
           H == Len(h)
           l == Line(m, s, h)
<1>1. /\ m \in Seq(C) /\ \A i \in 1..M : m[i] # Return /\ m[i] # Blank /\ m[i] # Slash
      /\ s \in Seq(C) /\ \A i \in 1..S : s[i] # Return /\ s[i] # Blank /\ s[i] # Slash
      /\ h \in Seq(C) /\ \A i \in 1..H : h[i] # Return /\ h[i] # Blank /\ h[i] # Slash
  BY DEF Word
<1>2. M \in Nat /\ S \in Nat /\ H \in Nat
  BY <1>1
<1>3. /\ l \in Seq(C) /\ Len(l) = M + S + H + 5
      /\ \A i \in 1..M : l[i] = m[i]
      /\ l[M + 1] = Blank
      /\ \A i \in 1..S : l[M + 1 + i] = s[i]
      /\ l[M + S + 2] = Colon /\ l[M + S + 3] = Slash /\ l[M + S + 4] = Slash
      /\ \A i \in 1..H : l[M + S + 4 + i] = h[i]
      /\ l[M + S + H + 5] = Slash
  <2>1. m \in Seq(C) /\ s \in Seq(C) /\ h \in Seq(C)
    BY <1>1, Zenon
  <2>2. IsLine(C, m, s, h, l)
    BY <2>1, LineIs, Zenon
  <2>3. QED
    BY <2>2, Zenon DEF IsLine
<1> HIDE DEF M, S, H, l
<1>4. SUFFICES ASSUME NEW i \in 1..Len(l)
               PROVE  /\ l[i] # Return
                      /\ l[i] = Blank => i = M + 1
                      /\ l[i] = Slash => i \in {M + S + 3, M + S + 4, M + S + H + 5}
  BY DEF M, S, H, l
<1>5. CASE i \in 1..M
  BY <1>1, <1>3, <1>5
<1>6. CASE i = M + 1
  BY <1>3, <1>6, CharactersDiffer
<1>7. CASE i \in M + 2..M + S + 1
  <2>1. i - (M + 1) \in 1..S /\ M + 1 + (i - (M + 1)) = i
    BY <1>2, <1>7
  <2>2. l[i] = s[i - (M + 1)]
    BY <1>3, <2>1
  <2>3. QED
    BY <1>1, <2>1, <2>2
<1>8. CASE i = M + S + 2 \/ i = M + S + 3 \/ i = M + S + 4
  <2>1. l[i] = Colon \/ (l[i] = Slash /\ i \in {M + S + 3, M + S + 4})
    BY <1>3, <1>8, Zenon
  <2>2. QED
    BY <2>1, CharactersDiffer
<1>9. CASE i \in M + S + 5..M + S + H + 4
  <2>1. i - (M + S + 4) \in 1..H /\ M + S + 4 + (i - (M + S + 4)) = i
    BY <1>2, <1>9
  <2>2. l[i] = h[i - (M + S + 4)]
    BY <1>3, <2>1
  <2>3. QED
    BY <1>1, <2>1, <2>2
<1>10. CASE i = M + S + H + 5
  BY <1>3, <1>10, CharactersDiffer
<1>11. i \in 1..M + S + H + 5
  BY <1>3
<1>12. QED
  BY <1>2, <1>5, <1>6, <1>7, <1>8, <1>9, <1>10, <1>11

\* Where its two marks are, and what the parser makes of that: the place of the
\* separator less the place of the URL is the length of the scheme.
LEMMA LineSearched ==
    ASSUME NEW C, Punctuation \subseteq C, NEW m, NEW s, NEW h,
           Word(C, m), Word(C, s), Word(C, h), h # <<>>
    PROVE  LET l == Line(m, s, h)
           IN  /\ SXStringSubCStringLocations(l, Space) # <<>> /\ UrlStart(l) = Len(m) + 1
               /\ TrimRange(l, UrlStart(l))[1] = Len(s) /\ TrimRange(l, UrlStart(l))[2] = Len(s) + 3
               /\ trimURLProtocolDefined(l, UrlStart(l)) <=> Len(s) <= Len(m) + Len(h) + 2
<1> DEFINE M == Len(m)
           S == Len(s)
           H == Len(h)
           l == Line(m, s, h)
           p == M + S + 1
<1>1. m \in Seq(C) /\ s \in Seq(C) /\ h \in Seq(C)
  BY DEF Word
<1>2. M \in Nat /\ S \in Nat /\ H \in Nat /\ H # 0 /\ p \in Nat
  BY <1>1
<1>3. /\ l \in Seq(C) /\ Len(l) = M + S + H + 5
      /\ l[M + 1] = Blank
      /\ l[M + S + 2] = Colon /\ l[M + S + 3] = Slash /\ l[M + S + 4] = Slash
  BY <1>1, LineIs DEF IsLine
<1>4. \A i \in 1..Len(l) : /\ l[i] = Blank => i = M + 1
                           /\ l[i] = Slash => i \in {M + S + 3, M + S + 4, M + S + H + 5}
  BY LineHas
<1>5. /\ Space \in Seq(C) /\ Len(Space) = 1 /\ Space[1] = Blank
      /\ Sep \in Seq(C) /\ Len(Sep) = 3 /\ Sep[1] = Colon /\ Sep[2] = Slash /\ Sep[3] = Slash
  BY PunctuationIs
<1> HIDE DEF M, S, H, l
<1>6. Occurrences(l, Space) = {M}
  <2>1. M + 1 <= Len(l)
    BY <1>2, <1>3
  <2>2. M \in Occurrences(l, Space)
    BY <1>2, <1>3, <1>5, <2>1, OneRead
  <2>3. ASSUME NEW i \in Occurrences(l, Space) PROVE i = M
    <3>1. i \in Nat
      BY <1>3, OccurrencesAreNat
    <3>2. i + 1 <= Len(l) /\ l[i + 1] = Blank
      BY <1>3, <1>5, <3>1, OneRead
    <3>3. i + 1 \in 1..Len(l)
      BY <1>2, <1>3, <3>1, <3>2
    <3>4. i + 1 = M + 1
      BY <1>4, <3>2, <3>3
    <3>5. QED
      BY <1>2, <3>1, <3>4
  <2>4. QED
    BY <2>2, <2>3
<1>7. Occurrences(l, Sep) = {p}
  <2>1. p + 1 = M + S + 2 /\ p + 2 = M + S + 3 /\ p + 3 = M + S + 4 /\ p + 3 <= Len(l)
    BY <1>2, <1>3
  <2> HIDE DEF p
  <2>2. l[p + 1] = Colon /\ l[p + 2] = Slash /\ l[p + 3] = Slash
    BY <1>3, <2>1, Zenon
  <2>3. p \in Occurrences(l, Sep)
    BY <1>2, <1>3, <1>5, <2>1, <2>2, ThreeRead
  <2>4. ASSUME NEW i \in Occurrences(l, Sep) PROVE i = p
    <3>1. i \in Nat
      BY <1>3, OccurrencesAreNat
    <3>2. i + 3 <= Len(l) /\ l[i + 2] = Slash /\ l[i + 3] = Slash
      BY <1>3, <1>5, <3>1, ThreeRead
    <3>3. i + 2 \in 1..Len(l) /\ i + 3 \in 1..Len(l)
      BY <1>2, <1>3, <3>1, <3>2
    <3>4. i + 2 \in {M + S + 3, M + S + 4, M + S + H + 5} /\ i + 3 \in {M + S + 3, M + S + 4, M + S + H + 5}
      BY <1>4, <3>2, <3>3
    <3>5. QED
      BY <1>2, <2>1, <3>1, <3>4
  <2>5. QED
    BY <2>3, <2>4
<1> HIDE DEF p
<1>8. LET locas == SXStringSubCStringLocations(l, Space) IN locas # <<>> /\ locas[1] = M
  <2>1. Lists(SXStringSubCStringLocations(l, Space), {M})
    BY <1>3, <1>5, <1>6, LocationsList
  <2>2. QED
    BY <2>1, OneListed
<1>9. SXStringSubStringLocation(l, Sep, 0) = p
  <2> DEFINE locas == SXStringSubCStringLocations(l, Sep)
  <2>1. Lists(locas, {p})
    BY <1>3, <1>5, <1>7, LocationsList
  <2>2. Len(locas) = 1 /\ locas[1] = p
    BY <2>1, OneListed
  <2>3. SXStringSubStringLocation(l, Sep, 0) = IF 0 < Len(locas) THEN locas[0 + 1] ELSE -1
    BY DEF SXStringSubStringLocation
  <2> HIDE DEF locas
  <2>4. QED
    BY <2>2, <2>3
<1>10. UrlStart(l) = M + 1
  BY <1>8 DEF UrlStart
<1>11. TrimRange(l, UrlStart(l))[1] = S /\ TrimRange(l, UrlStart(l))[2] = S + 3
  <2>1. TrimRange(l, M + 1)[1] = p - (M + 1) /\ TrimRange(l, M + 1)[2] = p - (M + 1) + 3
    BY <1>9 DEF TrimRange
  <2>2. p - (M + 1) = S
    BY <1>2 DEF p
  <2>3. QED
    BY <1>10, <2>1, <2>2
<1>12. trimURLProtocolDefined(l, UrlStart(l)) <=> S <= M + H + 2
  <2>1. trimURLProtocolDefined(l, UrlStart(l)) <=> p # -1 /\ InRange(l, S, S + 3)
    BY <1>9, <1>11 DEF trimURLProtocolDefined
  <2>2. InRange(l, S, S + 3) <=> S >= 0 /\ S + 3 >= 0 /\ S + (S + 3) <= Len(l)
    BY DEF InRange
  <2>3. QED
    BY <1>2, <1>3, <2>1, <2>2
<1>13. QED
  BY <1>8, <1>10, <1>11, <1>12 DEF M, S, H, l

\* The host name is the second word of the second line.
LEMMA HeaderWords ==
    ASSUME NEW C, Punctuation \subseteq C, NEW h, Word(C, h)
    PROVE  LET l == HeaderLine(h)
           IN  SXStringSubStringsTrimmedByStringDefined(l, Space) /\ Words(l)[2] = h
<1> DEFINE H == Len(h)
           l == HeaderLine(h)
           a == <<"H">> \o Space
<1>1. h \in Seq(C) /\ \A i \in 1..H : h[i] # Blank
  BY DEF Word
<1>2. H \in Nat
  BY <1>1
<1>3. l \in Seq(C) /\ Len(l) = H + 2 /\ l[1] = Letter /\ l[2] = Blank /\ \A i \in 1..H : l[2 + i] = h[i]
  BY <1>1, HeaderIs
<1>4. Space \in Seq(C) /\ Len(Space) = 1 /\ Space[1] = Blank /\ <<"H">> \in Seq(C) /\ Len(<<"H">>) = 1
  BY PunctuationIs
<1>5. a \in Seq(C) /\ Joins(C, <<"H">>, Space, a)
  BY <1>4, ConcatJoins, Zenon
<1>6. Len(a) = 2
  BY <1>4, <1>5 DEF Joins
<1>7. l = a \o h
  BY DEF HeaderLine
<1> HIDE DEF H, l, a
<1>8. Part(l, 2, H + 2) = h
  <2>1. Part(a \o h, Len(a), Len(a \o h)) = h
    BY <1>1, <1>5, PartsOfConcat, Zenon
  <2>2. Len(a \o h) = H + 2
    BY <1>3, <1>7
  <2>3. QED
    BY <1>6, <1>7, <2>1, <2>2
<1>9. Occurrences(l, Space) = {1}
  <2>1. 1 \in Occurrences(l, Space)
    <3>1. 1 + 1 = 2 /\ 1 + 1 <= Len(l)
      BY <1>2, <1>3
    <3>2. QED
      BY <1>3, <1>4, <3>1, OneRead
  <2>2. ASSUME NEW i \in Occurrences(l, Space) PROVE i = 1
    <3>1. i \in Nat
      BY <1>3, OccurrencesAreNat
    <3>2. i + 1 <= Len(l) /\ l[i + 1] = Blank
      BY <1>3, <1>4, <3>1, OneRead
    <3>3. i # 0
      BY <1>3, <3>2, CharactersDiffer
    <3>4. CASE i > 1
      <4>1. i - 1 \in 1..H /\ 2 + (i - 1) = i + 1
        BY <1>2, <1>3, <3>1, <3>2, <3>4
      <4>2. l[i + 1] = h[i - 1]
        BY <1>3, <4>1
      <4>3. QED
        BY <1>1, <3>2, <4>1, <4>2
    <3>5. QED
      BY <3>1, <3>3, <3>4
  <2>3. QED
    BY <2>1, <2>2
<1>10. /\ Cuttable(l, Space)
       /\ SXStringSubStringsTrimmedByString(l, Space)[2] = Part(l, 1 + Len(Space), Len(l))
  <2>1. HasTwo(C, l, Space, 1)
    BY <1>3, <1>4, <1>9, CutOnce
  <2>2. QED
    BY <2>1, Zenon DEF HasTwo
<1>11. SXStringSubStringsTrimmedByStringDefined(l, Space)
  BY <1>3, <1>4, <1>10, DefinedIsCuttable
<1>12. 1 + Len(Space) = 2
  BY <1>4
<1>13. Words(l)[2] = h
  BY <1>3, <1>8, <1>10, <1>12 DEF Words
<1>14. QED
  BY <1>11, <1>13 DEF l

\* The first line occurs in the text only as its first line.
LEMMA LineOnce ==
    ASSUME NEW C, Punctuation \subseteq C, NEW m, NEW s, NEW h, Word(C, m), Word(C, s), Word(C, h)
    PROVE  Occurrences(Line(m, s, h) \o BehindLine(h), Line(m, s, h)) = {0}
<1> DEFINE l == Line(m, s, h)
           L == Len(l)
           H == Len(h)
           t == l \o BehindLine(h)
<1>1. m \in Seq(C) /\ s \in Seq(C) /\ h \in Seq(C)
  BY DEF Word
<1>2. \A i \in 1..H : h[i] # Slash
  BY DEF Word
<1>3. l \in Seq(C) /\ L \in Nat /\ L > 0 /\ l[L] = Slash
  <2>1. IsLine(C, m, s, h, l)
    BY <1>1, LineIs, Zenon
  <2>2. Len(m) \in Nat /\ Len(s) \in Nat /\ Len(h) \in Nat
    BY <1>1
  <2> HIDE DEF l
  <2>3. QED
    BY <2>1, <2>2 DEF IsLine
<1>4. H \in Nat
  BY <1>1
<1> HIDE DEF l
<1>5. /\ t \in Seq(C) /\ Len(t) = L + H + 6
      /\ \A i \in 1..L : t[i] = l[i]
      /\ t[L + 1] = Return /\ t[L + 2] = Feed /\ t[L + 3] = Letter /\ t[L + 4] = Blank
      /\ \A i \in 1..H : t[L + 4 + i] = h[i]
      /\ t[L + H + 5] = Return /\ t[L + H + 6] = Feed
  BY <1>1, <1>3, TextIs
<1> HIDE DEF L, H, t
<1>6. ASSUME NEW i \in L + 1..Len(t) PROVE t[i] # Slash
  <2>1. CASE i \in L + 1..L + 4
    <3>1. i = L + 1 \/ i = L + 2 \/ i = L + 3 \/ i = L + 4
      BY <1>3, <2>1
    <3>2. QED
      BY <1>5, <3>1, CharactersDiffer
  <2>2. CASE i \in L + 5..L + H + 4
    <3>1. i - (L + 4) \in 1..H /\ L + 4 + (i - (L + 4)) = i
      BY <1>3, <1>4, <2>2
    <3>2. t[i] = h[i - (L + 4)]
      BY <1>5, <3>1
    <3>3. QED
      BY <1>2, <3>1, <3>2 DEF H
  <2>3. CASE i = L + H + 5 \/ i = L + H + 6
    BY <1>5, <2>3, CharactersDiffer
  <2>4. i \in L + 1..L + H + 6
    BY <1>5
  <2>5. QED
    BY <1>3, <1>4, <2>1, <2>2, <2>3, <2>4
<1>7. 0 \in Occurrences(t, l)
  <2>1. Reads(t, 0, l)
    BY <1>3, <1>4, <1>5 DEF Reads, L
  <2>2. MatchesAt(t, 0, l)
    BY <1>3, <1>5, <2>1, MatchReads
  <2>3. QED
    BY <1>3, <1>4, <1>5, <2>2 DEF Occurrences
<1>8. ASSUME NEW i \in Occurrences(t, l), i # 0 PROVE FALSE
  <2>1. i \in Nat /\ MatchesAt(t, i, l)
    BY <1>5 DEF Occurrences
  <2>2. Reads(t, i, l)
    BY <1>3, <1>5, <2>1, MatchReads
  <2>3. i + L <= Len(t) /\ t[i + L] = l[L]
    BY <1>3, <2>2 DEF Reads, L
  <2>4. i + L \in L + 1..Len(t)
    BY <1>3, <1>8, <2>1, <2>3
  <2>5. QED
    BY <1>3, <1>6, <2>3, <2>4
<1>9. QED
  BY <1>7, <1>8 DEF t, l

-----------------------------------------------------------------------------
(* What the parser makes of a request.                                     *)

\* A request, and its first line without the range that is meant to be its scheme.
Text(m, s, h) == Line(m, s, h) \o BehindLine(h)

Trimmed(m, s, h) ==
    Part(Line(m, s, h), 0, Len(s)) \o Part(Line(m, s, h), Len(s) + (Len(s) + 3), Len(Line(m, s, h)))

\* What is left of a string is a string.
LEMMA RemovedIsString ==
    ASSUME NEW C, NEW x \in Seq(C), NEW t \in Seq(C)
    PROVE  SXStringRemoveOcurrenceOfCString(x, t) \in Seq(C)
<1> DEFINE F == [k \in 0..Len(x) |-> Seq(C)]
<1>1. Len(x) \in Nat
  OBVIOUS
<1>2. x \in F[0] /\ \A k \in 1..Len(x) : F[k - 1] = Seq(C) /\ F[k] = Seq(C)
  BY <1>1
<1> HIDE DEF F
<1>3. ASSUME NEW k \in 1..Len(x), NEW str \in Seq(C) PROVE RemoveTurn(t, str, k) \in Seq(C)
  <2>1. k \in Nat /\ k >= 1
    OBVIOUS
  <2>2. \/ RemoveTurn(t, str, k) = str
        \/ Leaves(C, str, t, k - 1, RemoveTurn(t, str, k))
    BY <2>1, TurnLeaves
  <2>3. QED
    BY <2>2 DEF Leaves
<1>4. QED
  BY <1>2, <1>3, RemovingKeeps

\* What is left of the first line is a string if the range was inside it.
LEMMA TrimmedIsString ==
    ASSUME NEW C, Punctuation \subseteq C, NEW m, NEW s, NEW h, Word(C, m), Word(C, s), Word(C, h),
           Len(s) <= Len(m) + Len(h) + 2
    PROVE  Trimmed(m, s, h) \in Seq(C)
<1> DEFINE l == Line(m, s, h)
           S == Len(s)
           L == Len(l)
           e == S + (S + 3)
           u == Part(l, 0, S)
           v == Part(l, e, L)
<1>1. m \in Seq(C) /\ s \in Seq(C) /\ h \in Seq(C)
  BY DEF Word
<1>2. l \in Seq(C) /\ L = Len(m) + S + Len(h) + 5
  <2>1. IsLine(C, m, s, h, l)
    BY <1>1, LineIs, Zenon
  <2>2. QED
    BY <2>1, Zenon DEF IsLine
<1>3. S \in Nat /\ e \in Nat /\ L \in Nat /\ S <= L /\ e <= L /\ 0 \in Nat /\ 0 <= S /\ L <= L
  BY <1>1, <1>2
<1> HIDE DEF l, S, e
<1>4. u \in Seq(C)
  BY <1>2, <1>3, PartIs
<1>5. v \in Seq(C)
  BY <1>2, <1>3, PartIs
<1> HIDE DEF u, v
<1>6. u \o v \in Seq(C)
  BY <1>4, <1>5
<1>7. QED
  BY <1>6 DEF Trimmed, u, v, l, S, e

\* Wherever the parser is defined it finds the host name, and puts in the place of the
\* first line what it left of it.
IsParsed(m, s, h) ==
    /\ parseRequestDefined(Text(m, s, h)) <=> Len(s) <= Len(m) + Len(h) + 2
    /\ parseRequestDefined(Text(m, s, h)) =>
         /\ parseRequest(Text(m, s, h)).domain = h
         /\ parseRequest(Text(m, s, h)).text
              = SXStringRemoveOcurrenceOfCString(Trimmed(m, s, h), h) \o BehindLine(h)

\* That is what it does to every request.
LEMMA ParsedIs ==
    ASSUME NEW C, Punctuation \subseteq C, NEW m, NEW s, NEW h,
           Word(C, m), Word(C, s), Word(C, h), h # <<>>
    PROVE  IsParsed(m, s, h)
<1> DEFINE l == Line(m, s, h)
           b == BehindLine(h)
           t == l \o b
           x == Trimmed(m, s, h)
           y == SXStringRemoveOcurrenceOfCString(x, h)
           S == Len(s)
<1>1. m \in Seq(C) /\ s \in Seq(C) /\ h \in Seq(C)
  BY DEF Word
<1>2. l \in Seq(C) /\ b \in Seq(C) /\ l # <<>>
  <2>1. IsLine(C, m, s, h, l)
    BY <1>1, LineIs, Zenon
  <2>2. b \in Seq(C)
    BY <1>1, BehindIs
  <2> HIDE DEF l, b
  <2>3. Len(m) \in Nat /\ Len(s) \in Nat /\ Len(h) \in Nat
    BY <1>1
  <2>4. l \in Seq(C) /\ Len(l) = Len(m) + Len(s) + Len(h) + 5
    BY <2>1, Zenon DEF IsLine
  <2>5. Len(l) # 0
    BY <2>3, <2>4
  <2>6. QED
    BY <2>2, <2>4, <2>5
<1>3. SXStringSubStringsTrimmedByStringDefined(t, CRLF) /\ Lines(t)[1] = l /\ Lines(t)[2] = HeaderLine(h)
  <2>1. \A i \in 1..Len(l) : l[i] # Return
    BY LineHas
  <2>2. QED
    BY <1>2, <2>1, LinesAre
<1>4. /\ SXStringSubCStringLocations(l, Space) # <<>>
      /\ TrimRange(l, UrlStart(l))[1] = S /\ TrimRange(l, UrlStart(l))[2] = S + 3
      /\ trimURLProtocolDefined(l, UrlStart(l)) <=> S <= Len(m) + Len(h) + 2
  BY LineSearched
<1>5. SXStringSubStringsTrimmedByStringDefined(HeaderLine(h), Space) /\ Words(HeaderLine(h))[2] = h
  BY HeaderWords
<1>6. Occurrences(t, l) = {0}
  BY LineOnce
<1>7. trimURLProtocol(l, UrlStart(l)) = x
  <2>1. trimURLProtocol(l, UrlStart(l)) = SXStringRemovingRange(l, S, S + 3)
    BY <1>4, Zenon DEF trimURLProtocol
  <2>2. QED
    BY <2>1 DEF SXStringRemovingRange, Trimmed, Part
<1> HIDE DEF l, b, t, x, y, S
<1>8. Rewritten(t) = y
  BY <1>3, <1>5, <1>7, Zenon DEF Rewritten, y
<1>9. ASSUME S <= Len(m) + Len(h) + 2
      PROVE  /\ SXStringReplacingOccurrencesOfStringDefined(t, l, y)
             /\ SXStringReplacingOccurrencesOfString(t, l, y, {}) = y \o b
  <2>1. x \in Seq(C)
    BY <1>9, TrimmedIsString DEF x, S
  <2>2. y \in Seq(C)
    BY <1>1, <2>1, RemovedIsString DEF y
  <2>3. t \in Seq(C)
    BY <1>2, ConcatJoins, Zenon DEF t
  <2>4. HasTwo(C, t, l, 0)
    BY <1>2, <1>6, <2>3, CutOnce
  <2>5. /\ Cuttable(t, l)
        /\ Joined(SXStringSubStringsTrimmedByString(t, l), y) = Part(t, 0, 0) \o y \o Part(t, 0 + Len(l), Len(t))
    BY <2>2, <2>4, Zenon DEF HasTwo
  <2>6. Part(t, 0, 0) = <<>>
    BY PartNone
  <2>7. Part(t, Len(l), Len(t)) = b
    BY <1>2, PartsOfConcat DEF t
  <2>8. 0 + Len(l) = Len(l)
    BY <1>2
  <2>9. <<>> \o y = y
    BY <2>2
  <2>10. Joined(SXStringSubStringsTrimmedByString(t, l), y) = y \o b
    BY <2>5, <2>6, <2>7, <2>8, <2>9, Zenon
  <2>11. QED
    BY <1>2, <2>2, <2>3, <2>5, <2>10, ReplaceIsSound, Zenon
<1>10. /\ parseRequestDefined(t) <=> S <= Len(m) + Len(h) + 2
       /\ parseRequestDefined(t) =>
            /\ parseRequest(t).domain = h
            /\ parseRequest(t).text = SXStringReplacingOccurrencesOfString(t, l, y, {})
  <2>1. /\ parseRequestDefined(t)
             <=> S <= Len(m) + Len(h) + 2 /\ SXStringReplacingOccurrencesOfStringDefined(t, l, y)
    BY <1>3, <1>4, <1>5, <1>8, Zenon DEF parseRequestDefined
  <2>2. parseRequest(t).domain = h /\ parseRequest(t).text = SXStringReplacingOccurrencesOfString(t, l, y, {})
    BY <1>3, <1>5, <1>8 DEF parseRequest
  <2>3. QED
    BY <1>9, <2>1, <2>2, Zenon
<1>11. /\ parseRequestDefined(t) <=> S <= Len(m) + Len(h) + 2
       /\ parseRequestDefined(t) => parseRequest(t).domain = h /\ parseRequest(t).text = y \o b
  BY <1>9, <1>10, Zenon
<1>12. Text(m, s, h) = t
  BY DEF Text, t, l, b
<1>13. QED
  BY <1>11, <1>12, Zenon DEF S, y, x, b, IsParsed

\* The string l without S + 3 characters from S on.
IsCut(C, l, S, x) ==
    /\ x \in Seq(C) /\ Len(x) = Len(l) - (S + 3)
    /\ \A i \in 1..S : x[i] = l[i]
    /\ \A i \in S + 1..Len(x) : x[i] = l[i + (S + 3)]

\* The first line after the removal is such a string.
LEMMA TrimmedIsCut ==
    ASSUME NEW C, Punctuation \subseteq C, NEW m, NEW s, NEW h, Word(C, m), Word(C, s), Word(C, h),
           Len(s) <= Len(m) + Len(h) + 2
    PROVE  IsCut(C, Line(m, s, h), Len(s), Trimmed(m, s, h))
<1> DEFINE l == Line(m, s, h)
           S == Len(s)
           L == Len(l)
           e == S + (S + 3)
           u == Part(l, 0, S)
           v == Part(l, e, L)
           x == u \o v
<1>1. m \in Seq(C) /\ s \in Seq(C) /\ h \in Seq(C)
  BY DEF Word
<1>2. l \in Seq(C) /\ L = Len(m) + S + Len(h) + 5
  <2>1. IsLine(C, m, s, h, l)
    BY <1>1, LineIs, Zenon
  <2>2. QED
    BY <2>1, Zenon DEF IsLine
<1>3. S \in Nat /\ e \in Nat /\ L \in Nat /\ S <= L /\ e <= L /\ 0 \in Nat /\ 0 <= S /\ L <= L
      /\ S - 0 = S /\ e = S + (S + 3)
  BY <1>1, <1>2
<1> HIDE DEF l, S, e
<1>ends. l \in Seq(C) /\ L <= Len(l) /\ S <= Len(l)
  BY <1>2, <1>3
<1> HIDE DEF L
<1>4. u \in Seq(C) /\ Len(u) = S /\ \A k \in 1..S : u[k] = l[0 + k]
  <2>1. IsPart(u, C, l, 0, S)
    BY <1>ends, <1>3, PartIsPart
  <2>2. QED
    BY <1>3, <2>1 DEF IsPart
<1>5. v \in Seq(C) /\ Len(v) = L - e /\ \A k \in 1..L - e : v[k] = l[e + k]
  <2>1. IsPart(v, C, l, e, L)
    BY <1>ends, <1>3, PartIsPart
  <2>2. QED
    BY <2>1, Zenon DEF IsPart
<1> HIDE DEF u, v
<1>6. Joins(C, u, v, x)
  BY <1>4, <1>5, ConcatJoins, Zenon
<1> HIDE DEF x
<1>7. /\ x \in Seq(C) /\ Len(x) = S + (L - e)
      /\ \A i \in 1..S : x[i] = u[i]
      /\ \A i \in 1..L - e : x[S + i] = v[i]
  BY <1>4, <1>5, <1>6 DEF Joins
<1>8. Len(x) = L - (S + 3)
  BY <1>3, <1>7
<1>9. \A i \in 1..S : x[i] = l[i]
  BY <1>3, <1>4, <1>7
<1>10. ASSUME NEW i \in S + 1..Len(x) PROVE x[i] = l[i + (S + 3)]
  <2>1. i - S \in 1..L - e /\ S + (i - S) = i /\ e + (i - S) = i + (S + 3)
    BY <1>3, <1>8
  <2>2. x[S + (i - S)] = v[i - S] /\ v[i - S] = l[e + (i - S)]
    BY <1>5, <1>7, <2>1
  <2>3. QED
    BY <2>1, <2>2
<1>11. IsCut(C, l, S, x)
  BY <1>7, <1>8, <1>9, <1>10 DEF IsCut, L
<1>12. QED
  BY <1>11 DEF Trimmed, x, u, v, e, L, l, S

\* The documented line is not what is left of a request whose scheme is too short, ...
LEMMA TooShort ==
    ASSUME NEW C, Punctuation \subseteq C, NEW m, NEW s, NEW h, Word(C, m), Word(C, s), Word(C, h),
           Len(s) <= Len(m)
    PROVE  SXStringRemoveOcurrenceOfCString(Trimmed(m, s, h), h) # Short(m)
<1> DEFINE M == Len(m)
           S == Len(s)
           H == Len(h)
           l == Line(m, s, h)
           x == Trimmed(m, s, h)
           y == SXStringRemoveOcurrenceOfCString(x, h)
<1>1. m \in Seq(C) /\ s \in Seq(C) /\ h \in Seq(C)
  BY DEF Word
<1>2. M \in Nat /\ S \in Nat /\ H \in Nat /\ S <= M /\ S <= M + H + 2
  BY <1>1
<1>3. IsLine(C, m, s, h, l)
  BY <1>1, LineIs, Zenon
<1>4. l[M + 1] = Blank /\ l[M + S + 3] = Slash /\ l[M + S + 4] = Slash /\ Len(l) = M + S + H + 5
  BY <1>3, Zenon DEF IsLine
<1>5. \A i \in 1..Len(l) : l[i] = Blank => i = M + 1
  BY LineHas
<1>6. IsCut(C, l, S, x)
  BY <1>2, TrimmedIsCut
<1>7. \A i \in 1..M : m[i] # Slash
  BY DEF Word
<1>8. \A i \in 1..H : h[i] # Slash
  BY DEF Word
<1>9. /\ Short(m) \in Seq(C) /\ Len(Short(m)) = M + 2
      /\ \A i \in 1..M : Short(m)[i] = m[i]
      /\ Short(m)[M + 1] = Blank /\ Short(m)[M + 2] = Slash
  BY <1>1, ShortIs
<1> HIDE DEF M, S, H, l, x
<1>10. /\ x \in Seq(C) /\ Len(x) = M + H + 2
       /\ \A i \in 1..S : x[i] = l[i]
       /\ \A i \in S + 1..M + H + 2 : x[i] = l[i + (S + 3)]
  <2>1. Len(l) - (S + 3) = M + H + 2
    BY <1>2, <1>4
  <2>2. QED
    BY <1>6, <2>1 DEF IsCut
<1>11. CASE M < S + S + 3
  <2>1. ASSUME NEW i \in 1..Len(x) PROVE x[i] # Blank
    <3>1. CASE i <= S
      <4>1. i \in 1..S /\ i \in 1..Len(l) /\ i # M + 1
        BY <1>2, <1>4, <3>1
      <4>2. QED
        BY <1>5, <1>10, <4>1
    <3>2. CASE i > S
      <4>1. i \in S + 1..M + H + 2 /\ i + (S + 3) \in 1..Len(l) /\ i + (S + 3) # M + 1
        BY <1>2, <1>4, <1>10, <1>11, <3>2
      <4>2. QED
        BY <1>5, <1>10, <4>1
    <3>3. QED
      BY <1>2, <3>1, <3>2
  <2>2. Lacks(y, Blank)
    <3>1. Lacks(x, Blank)
      BY <2>1 DEF Lacks
    <3>2. QED
      BY <1>1, <1>10, <3>1, NothingNew
  <2> HIDE DEF y
  <2>3. M + 1 \in 1..Len(Short(m))
    BY <1>2, <1>9
  <2>4. y # Short(m)
    BY <1>9, <2>2, <2>3 DEF Lacks
  <2>5. QED
    BY <2>4 DEF y, x
<1>12. CASE S + S + 3 <= M
  <2>1. x[M] = Slash /\ x[M + 1] = Slash
    <3>1. M \in S + 1..M + H + 2 /\ M + 1 \in S + 1..M + H + 2
      BY <1>2, <1>12
    <3>2. M + (S + 3) = M + S + 3 /\ M + 1 + (S + 3) = M + S + 4
      BY <1>2
    <3>3. QED
      BY <1>4, <1>10, <3>1, <3>2
  <2>2. M \in 1..Len(x) /\ M + 1 \in 1..Len(x) /\ M < M + 1
    BY <1>2, <1>10, <1>12
  <2>3. \E i, j \in 1..Len(x) : i < j /\ x[i] = Slash /\ x[j] = Slash
    BY <2>1, <2>2
  <2>4. HasPair(y, Slash)
    <3>1. Lacks(h, Slash)
      BY <1>8 DEF Lacks, H
    <3>2. HasPair(x, Slash)
      BY <2>3 DEF HasPair
    <3>3. QED
      BY <1>1, <1>10, <3>1, <3>2, TwoStay
  <2> HIDE DEF y
  <2>5. \A i \in 1..Len(Short(m)) : Short(m)[i] = Slash => i = M + 2
    BY <1>2, <1>7, <1>9, CharactersDiffer
  <2>6. y # Short(m)
    BY <2>4, <2>5 DEF HasPair
  <2>7. QED
    BY <2>6 DEF y, x
<1>13. QED
  BY <1>2, <1>11, <1>12

\* ... nor of one whose scheme is too long by the host name and the slash behind it.
LEMMA TooLong ==
    ASSUME NEW C, Punctuation \subseteq C, NEW m, NEW s, NEW h, Word(C, m), Word(C, s), Word(C, h),
           Len(s) = Len(m) + Len(h) + 2
    PROVE  SXStringRemoveOcurrenceOfCString(Trimmed(m, s, h), h) # Short(m)
<1> DEFINE M == Len(m)
           S == Len(s)
           H == Len(h)
           l == Line(m, s, h)
           x == Trimmed(m, s, h)
           y == SXStringRemoveOcurrenceOfCString(x, h)
<1>1. m \in Seq(C) /\ s \in Seq(C) /\ h \in Seq(C)
  BY DEF Word
<1>2. M \in Nat /\ S \in Nat /\ H \in Nat /\ S = M + H + 2 /\ S <= M + H + 2
  BY <1>1
<1>3. Len(l) = M + S + H + 5
  <2>1. IsLine(C, m, s, h, l)
    BY <1>1, LineIs, Zenon
  <2>2. QED
    BY <2>1, Zenon DEF IsLine
<1>4. \A i \in 1..Len(l) : l[i] = Slash => i \in {M + S + 3, M + S + 4, M + S + H + 5}
  BY LineHas
<1>5. IsCut(C, l, S, x)
  BY <1>2, TrimmedIsCut
<1>6. Short(m) \in Seq(C) /\ Len(Short(m)) = M + 2 /\ Short(m)[M + 2] = Slash
  BY <1>1, ShortIs
<1> HIDE DEF M, S, H, l, x
<1>7. x \in Seq(C) /\ Len(x) = S /\ \A i \in 1..S : x[i] = l[i]
  <2>1. Len(l) - (S + 3) = S
    BY <1>2, <1>3
  <2>2. QED
    BY <1>5, <2>1 DEF IsCut
<1>8. ASSUME NEW i \in 1..Len(x) PROVE x[i] # Slash
  <2>1. i \in 1..S /\ i \in 1..Len(l) /\ i \notin {M + S + 3, M + S + 4, M + S + H + 5}
    BY <1>2, <1>3, <1>7
  <2>2. QED
    BY <1>4, <1>7, <2>1
<1>9. Lacks(y, Slash)
  <2>1. Lacks(x, Slash)
    BY <1>8 DEF Lacks
  <2>2. QED
    BY <1>1, <1>7, <2>1, NothingNew
<1> HIDE DEF y
<1>10. M + 2 \in 1..Len(Short(m))
  BY <1>2, <1>6
<1>11. y # Short(m)
  BY <1>6, <1>9, <1>10 DEF Lacks
<1>12. QED
  BY <1>11 DEF y, x

\* The first line with the host name behind the method, its first k characters those of
\* the scheme.
IsMerged(C, m, s, h, k, x) ==
    /\ x \in Seq(C) /\ Len(x) = Len(m) + Len(h) + 2
    /\ \A i \in 1..Len(m) : x[i] = m[i]
    /\ x[Len(m) + 1] = Blank /\ x[Len(m) + Len(h) + 2] = Slash
    /\ \A i \in 1..Len(h) : i <= k => x[Len(m) + 1 + i] = s[i]
    /\ \A i \in 1..Len(h) : i > k => x[Len(m) + 1 + i] = h[i]

\* That is what is left of a request whose scheme is too long by k characters.
LEMMA TrimmedIsMerged ==
    ASSUME NEW C, Punctuation \subseteq C, NEW m, NEW s, NEW h, Word(C, m), Word(C, s), Word(C, h),
           NEW k \in 0..Len(h), Len(s) = Len(m) + 1 + k
    PROVE  IsMerged(C, m, s, h, k, Trimmed(m, s, h))
<1> DEFINE M == Len(m)
           S == Len(s)
           H == Len(h)
           l == Line(m, s, h)
           x == Trimmed(m, s, h)
<1>1. m \in Seq(C) /\ s \in Seq(C) /\ h \in Seq(C)
  BY DEF Word
<1>2. M \in Nat /\ S \in Nat /\ H \in Nat /\ k \in Nat /\ k <= H /\ S = M + 1 + k /\ S <= M + H + 2
  BY <1>1
<1>3. IsLine(C, m, s, h, l)
  BY <1>1, LineIs, Zenon
<1>4. IsCut(C, l, S, x)
  BY <1>2, TrimmedIsCut
<1> HIDE DEF M, S, H, l, x
<1>5. /\ Len(l) = M + S + H + 5
      /\ \A i \in 1..M : l[i] = m[i]
      /\ l[M + 1] = Blank
      /\ \A i \in 1..S : l[M + 1 + i] = s[i]
      /\ \A i \in 1..H : l[M + S + 4 + i] = h[i]
      /\ l[M + S + H + 5] = Slash
  BY <1>3, Zenon DEF IsLine, M, S, H
<1>6. /\ x \in Seq(C) /\ Len(x) = M + H + 2
      /\ \A i \in 1..S : x[i] = l[i]
      /\ \A i \in S + 1..M + H + 2 : x[i] = l[i + (S + 3)]
  <2>1. Len(l) - (S + 3) = M + H + 2
    BY <1>2, <1>5
  <2>2. QED
    BY <1>4, <2>1 DEF IsCut
<1>7. ASSUME NEW i \in 1..M PROVE x[i] = m[i]
  <2>1. i \in 1..S
    BY <1>2
  <2>2. QED
    BY <1>5, <1>6, <2>1
<1>8. x[M + 1] = Blank
  <2>1. M + 1 \in 1..S
    BY <1>2
  <2>2. QED
    BY <1>5, <1>6, <2>1
<1>9. x[M + H + 2] = Slash
  <2>1. M + H + 2 \in S + 1..M + H + 2 /\ (M + H + 2) + (S + 3) = M + S + H + 5
    BY <1>2
  <2>2. QED
    BY <1>5, <1>6, <2>1
<1>10. ASSUME NEW i \in 1..H, i <= k PROVE x[M + 1 + i] = s[i]
  <2>1. M + 1 + i \in 1..S /\ i \in 1..S
    BY <1>2, <1>10
  <2>2. QED
    BY <1>5, <1>6, <2>1
<1>11. ASSUME NEW i \in 1..H, i > k PROVE x[M + 1 + i] = h[i]
  <2>1. M + 1 + i \in S + 1..M + H + 2 /\ (M + 1 + i) + (S + 3) = M + S + 4 + i
    BY <1>2, <1>11
  <2>2. x[M + 1 + i] = l[(M + 1 + i) + (S + 3)]
    BY <1>6, <2>1
  <2>3. QED
    BY <1>5, <2>1, <2>2
<1>12. QED
  BY <1>6, <1>7, <1>8, <1>9, <1>10, <1>11 DEF IsMerged, M, H, x

\* Every occurrence of the host in x is one in the method, or right behind it.
FoundIn(m, s, h, k, x) ==
    /\ \A p \in Occurrences(m, h) : p < Len(m) + 1 /\ MatchesAt(x, p, h)
    /\ Occurrences(m, h) = {} => \A p \in Occurrences(x, h) : p = Len(m) + 1
    /\ Len(m) + 1 \in Occurrences(x, h) <=> \A i \in 1..k : s[i] = h[i]

\* That is where it is found in what is left of the first line.
LEMMA MergedSearched ==
    ASSUME NEW C, Punctuation \subseteq C, NEW m, NEW s, NEW h, Word(C, m), Word(C, s), Word(C, h), h # <<>>,
           NEW k \in 0..Len(h), Len(s) = Len(m) + 1 + k, NEW x, IsMerged(C, m, s, h, k, x)
    PROVE  FoundIn(m, s, h, k, x)
<1> DEFINE M == Len(m)
           H == Len(h)
<1>1. m \in Seq(C) /\ s \in Seq(C) /\ h \in Seq(C)
  BY DEF Word
<1>2. M \in Nat /\ H \in Nat /\ H > 0 /\ k \in Nat /\ k <= H
  BY <1>1
<1>3. \A i \in 1..H : h[i] # Blank /\ h[i] # Slash
  BY DEF Word
<1>4. /\ x \in Seq(C) /\ Len(x) = M + H + 2
      /\ \A i \in 1..M : x[i] = m[i]
      /\ x[M + 1] = Blank /\ x[M + H + 2] = Slash
      /\ \A i \in 1..H : i <= k => x[M + 1 + i] = s[i]
      /\ \A i \in 1..H : i > k => x[M + 1 + i] = h[i]
  BY Zenon DEF IsMerged
<1>5. \A p \in Nat : p \in Occurrences(x, h) <=> Reads(x, p, h)
  <2>1. ASSUME NEW p \in Nat PROVE MatchesAt(x, p, h) <=> Reads(x, p, h)
    BY <1>1, <1>4, MatchReads, Zenon
  <2>2. ASSUME NEW p \in Nat, Reads(x, p, h) PROVE p \in 0..Len(x) - 1
    BY <1>2, <1>4, <2>2 DEF Reads
  <2>3. QED
    BY <2>1, <2>2 DEF Occurrences
<1>6. \A p \in Nat : p \in Occurrences(m, h) <=> Reads(m, p, h)
  <2>1. ASSUME NEW p \in Nat PROVE MatchesAt(m, p, h) <=> Reads(m, p, h)
    BY <1>1, MatchReads, Zenon
  <2>2. ASSUME NEW p \in Nat, Reads(m, p, h) PROVE p \in 0..Len(m) - 1
    BY <1>2, <2>2 DEF Reads
  <2>3. QED
    BY <2>1, <2>2 DEF Occurrences
<1> HIDE DEF M, H
<1>7. ASSUME NEW p \in Nat, p + H <= M PROVE Reads(x, p, h) <=> Reads(m, p, h)
  <2>1. \A j \in 1..H : p + j \in 1..M
    BY <1>2, <1>7
  <2>2. p + H <= Len(x)
    BY <1>2, <1>4, <1>7
  <2>3. \A j \in 1..H : x[p + j] = m[p + j]
    BY <1>4, <2>1
  <2>4. QED
    BY <1>7, <2>2, <2>3 DEF Reads, M, H
<1>8. ASSUME NEW p \in Occurrences(m, h) PROVE p < M + 1 /\ MatchesAt(x, p, h)
  <2>1. p \in Nat /\ Reads(m, p, h)
    BY <1>1, <1>6, <1>8, OccurrencesAreNat
  <2>2. p + H <= M
    BY <2>1 DEF Reads, M, H
  <2>3. Reads(x, p, h)
    BY <1>7, <2>1, <2>2
  <2>4. MatchesAt(x, p, h)
    BY <1>1, <1>4, <2>1, <2>3, MatchReads, Zenon
  <2>5. QED
    BY <1>2, <2>1, <2>2, <2>4
<1>9. ASSUME Occurrences(m, h) = {}, NEW p \in Occurrences(x, h) PROVE p = M + 1
  <2>1. p \in Nat /\ Reads(x, p, h)
    BY <1>4, <1>5, <1>9, OccurrencesAreNat
  <2>2. p + H <= M + H + 2 /\ \A j \in 1..H : x[p + j] = h[j]
    BY <1>4, <2>1 DEF Reads, H
  <2>3. ~(p + H <= M)
    BY <1>6, <1>7, <1>9, <2>1
  <2>4. ASSUME p <= M PROVE FALSE
    <3>1. (M + 1) - p \in 1..H /\ p + ((M + 1) - p) = M + 1
      BY <1>2, <2>1, <2>3, <2>4
    <3>2. x[p + ((M + 1) - p)] = h[(M + 1) - p]
      BY <2>2, <3>1
    <3>3. QED
      BY <1>3, <1>4, <3>1, <3>2 DEF H
  <2>5. ASSUME p = M + 2 PROVE FALSE
    <3>1. H \in 1..H /\ p + H = M + H + 2
      BY <1>2, <2>5
    <3>2. x[p + H] = h[H]
      BY <2>2, <3>1
    <3>3. QED
      BY <1>3, <1>4, <3>1, <3>2 DEF H
  <2>6. QED
    BY <1>2, <2>1, <2>2, <2>4, <2>5
<1>10. M + 1 \in Occurrences(x, h) <=> \A i \in 1..k : s[i] = h[i]
  <2>1. M + 1 \in Nat /\ M + 1 + H <= Len(x)
    BY <1>2, <1>4
  <2>2. M + 1 \in Occurrences(x, h) <=> \A j \in 1..H : x[M + 1 + j] = h[j]
    BY <1>5, <2>1 DEF Reads, H
  <2>3. ASSUME \A j \in 1..H : x[M + 1 + j] = h[j], NEW i \in 1..k PROVE s[i] = h[i]
    <3>1. i \in 1..H /\ i <= k
      BY <1>2
    <3>2. QED
      BY <1>4, <2>3, <3>1
  <2>4. ASSUME \A i \in 1..k : s[i] = h[i], NEW j \in 1..H PROVE x[M + 1 + j] = h[j]
    <3>1. CASE j <= k
      <4>1. j \in 1..k
        BY <1>2, <3>1
      <4>2. QED
        BY <1>4, <2>4, <3>1, <4>1
    <3>2. CASE j > k
      BY <1>4, <3>2
    <3>3. QED
      BY <1>2, <3>1, <3>2
  <2>5. QED
    BY <2>2, <2>3, <2>4
<1>11. QED
  BY <1>8, <1>9, <1>10 DEF M, FoundIn

\* Two strings begin with the same k characters.
LEMMA SameBeginnings ==
    ASSUME NEW C, NEW s \in Seq(C), NEW h \in Seq(C), NEW k \in Nat, k <= Len(s), k <= Len(h)
    PROVE  SubSeq(s, 1, k) = SubSeq(h, 1, k) <=> \A i \in 1..k : s[i] = h[i]
<1> DEFINE a == Part(s, 0, k)
           b == Part(h, 0, k)
<1>1. 0 \in Nat /\ 0 <= k /\ k - 0 = k
  OBVIOUS
<1>2. IsPart(a, C, s, 0, k) /\ IsPart(b, C, h, 0, k)
  BY <1>1, PartIsPart
<1>3. a = SubSeq(s, 1, k) /\ b = SubSeq(h, 1, k)
  BY DEF Part
<1> HIDE DEF a, b
<1>4. /\ a \in Seq(C) /\ Len(a) = k /\ \A i \in 1..k : a[i] = s[i]
      /\ b \in Seq(C) /\ Len(b) = k /\ \A i \in 1..k : b[i] = h[i]
  BY <1>1, <1>2 DEF IsPart
<1>5. a = b <=> \A i \in 1..k : s[i] = h[i]
  BY <1>4
<1>6. QED
  BY <1>3, <1>5

\* The only occurrence of what is removed is gone afterwards.
LEMMA OnceRemoved ==
    ASSUME NEW C, NEW x \in Seq(C), NEW t \in Seq(C), t # <<>>, NEW p \in Nat, Occurrences(x, t) = {p}
    PROVE  SXStringRemoveOcurrenceOfCString(x, t) = Part(x, 0, p) \o Part(x, p + Len(t), Len(x))
<1> DEFINE u == Part(x, 0, p)
           v == Part(x, p + Len(t), Len(x))
<1>1. HasTwo(C, x, t, p)
  BY CutOnce
<1>2. <<>> \in Seq(C)
  OBVIOUS
<1>3. Joined(SXStringSubStringsTrimmedByString(x, t), <<>>) = u \o <<>> \o v
  BY <1>1, <1>2, Zenon DEF HasTwo
<1>4. Apart(x, t, Len(t) + 1)
  BY DEF Apart
<1>5. SXStringRemoveOcurrencesOfCStrings(x, t) = Joined(SXStringSubStringsTrimmedByString(x, t), <<>>)
  <2>1. Occurrences(x, t) # {}
    OBVIOUS
  <2>2. QED
    BY <1>4, <2>1, RemoveIsSound, Zenon
<1>6. u \in Seq(C)
  <2>1. p <= Len(x) /\ 0 \in Nat /\ 0 <= p
    BY <1>1 DEF HasTwo
  <2>2. QED
    BY <2>1, PartIs
<1> HIDE DEF u
<1>7. u \o <<>> = u
  BY <1>6
<1>8. QED
  BY <1>3, <1>5, <1>7, Zenon DEF SXStringRemoveOcurrencesOfCStrings, u

\* The host is found where the scheme ended, or not at all, or in the method.
LEMMA MergedRemoved ==
    ASSUME NEW C, Punctuation \subseteq C, NEW m, NEW s, NEW h, Word(C, m), Word(C, s), Word(C, h), h # <<>>,
           NEW k \in 0..Len(h), Len(s) = Len(m) + 1 + k, NEW x, IsMerged(C, m, s, h, k, x)
    PROVE  SXStringRemoveOcurrenceOfCString(x, h) = Short(m)
             <=> (\A i \in 1..k : s[i] = h[i]) /\ Occurrences(m, h) = {}
<1> DEFINE M == Len(m)
           H == Len(h)
           y == SXStringRemoveOcurrenceOfCString(x, h)
<1>1. m \in Seq(C) /\ s \in Seq(C) /\ h \in Seq(C)
  BY DEF Word
<1>2. M \in Nat /\ H \in Nat /\ H > 0
  BY <1>1
<1>3. /\ x \in Seq(C) /\ Len(x) = M + H + 2
      /\ \A i \in 1..M : x[i] = m[i]
      /\ x[M + 1] = Blank /\ x[M + H + 2] = Slash
  BY Zenon DEF IsMerged
<1>4. /\ \A p \in Occurrences(m, h) : p < M + 1 /\ MatchesAt(x, p, h)
      /\ Occurrences(m, h) = {} => \A p \in Occurrences(x, h) : p = M + 1
      /\ M + 1 \in Occurrences(x, h) <=> \A i \in 1..k : s[i] = h[i]
  <2>1. FoundIn(m, s, h, k, x)
    BY MergedSearched
  <2>2. QED
    BY <2>1, Zenon DEF FoundIn
<1>5. Lacks(h, Blank) /\ \A i \in 1..M : m[i] # Blank
  BY DEF Word, Lacks
<1>6. /\ Short(m) \in Seq(C) /\ Len(Short(m)) = M + 2
      /\ \A i \in 1..M : Short(m)[i] = m[i]
      /\ Short(m)[M + 1] = Blank /\ Short(m)[M + 2] = Slash
  BY <1>1, ShortIs
<1> HIDE DEF M, H, y
<1>7. CASE Occurrences(m, h) # {}
  <2>1. PICK p \in Occurrences(m, h) : TRUE
    BY <1>7
  <2>2. p \in Nat /\ p < M + 1 /\ MatchesAt(x, p, h)
    BY <1>1, <1>4, <2>1, OccurrencesAreNat
  <2>3. M + 1 \in 1..Len(x)
    BY <1>2, <1>3
  <2>4. HasBefore(y, Blank, M + 1)
    BY <1>1, <1>3, <1>5, <2>2, <2>3, MovesLeft DEF y
  <2>5. ~HasBefore(Short(m), Blank, M + 1)
    <3>1. ASSUME NEW i \in 1..Len(Short(m)), i < M + 1 PROVE Short(m)[i] # Blank
      <4>1. i \in 1..M
        BY <1>2, <1>6, <3>1
      <4>2. QED
        BY <1>5, <1>6, <4>1
    <3>2. QED
      BY <3>1 DEF HasBefore
  <2>6. y # Short(m)
    BY <2>4, <2>5
  <2>7. QED
    BY <1>7, <2>6 DEF y
<1>8. CASE Occurrences(m, h) = {} /\ \A i \in 1..k : s[i] = h[i]
  <2>1. Occurrences(x, h) = {M + 1}
    BY <1>4, <1>8
  <2> DEFINE d == M + 1
             u == Part(x, 0, d)
             v == Part(x, d + H, Len(x))
  <2>2. d \in Nat /\ d = M + 1 /\ d + H \in Nat /\ d + H <= Len(x) /\ d <= Len(x) /\ Len(x) \in Nat
        /\ 0 <= d /\ Len(x) - (d + H) = 1
    BY <1>2, <1>3
  <2> HIDE DEF d
  <2>3. y = u \o v
    BY <1>1, <1>3, <2>1, <2>2, OnceRemoved DEF y, H
  <2>4. u \in Seq(C) /\ Len(u) = M + 1 /\ \A i \in 1..M + 1 : u[i] = x[i]
    <3>1. IsPart(u, C, x, 0, d)
      BY <1>3, <2>2, PartIsPart
    <3>2. QED
      BY <1>2, <2>2, <3>1 DEF IsPart
  <2>5. v \in Seq(C) /\ Len(v) = 1 /\ v[1] = Slash
    <3> DEFINE e == d + H
               n == Len(x)
    <3>1. e \in Nat /\ n \in Nat /\ e <= n /\ n <= Len(x) /\ n - e = 1 /\ e + 1 = M + H + 2
      BY <1>2, <1>3, <2>2
    <3> HIDE DEF e, n
    <3>2. IsPart(Part(x, e, n), C, x, e, n)
      BY <1>3, <3>1, PartIsPart
    <3>3. /\ Part(x, e, n) \in Seq(C) /\ Len(Part(x, e, n)) = 1
          /\ Part(x, e, n)[1] = x[e + 1]
      BY <3>1, <3>2 DEF IsPart
    <3>4. x[e + 1] = Slash
      BY <1>3, <3>1, Zenon
    <3>5. QED
      BY <3>3, <3>4 DEF e, n
  <2> HIDE DEF u, v
  <2>6. Joins(C, u, v, y)
    BY <2>3, <2>4, <2>5, ConcatJoins, Zenon
  <2>7. y \in Seq(C) /\ Len(y) = M + 2 /\ (\A i \in 1..M + 1 : y[i] = x[i]) /\ y[M + 1 + 1] = Slash
    <3>1. 1 \in 1..Len(v)
      BY <2>5
    <3>2. QED
      BY <1>2, <2>4, <2>5, <2>6, <3>1 DEF Joins
  <2>8. ASSUME NEW i \in 1..M + 2 PROVE y[i] = Short(m)[i]
    <3>1. CASE i \in 1..M
      BY <1>2, <1>3, <1>6, <2>7, <3>1
    <3>2. CASE i = M + 1
      BY <1>2, <1>3, <1>6, <2>7, <3>2
    <3>3. CASE i = M + 2
      <4>1. M + 1 + 1 = M + 2
        BY <1>2
      <4>2. QED
        BY <1>6, <2>7, <3>3, <4>1
    <3>4. QED
      BY <1>2, <3>1, <3>2, <3>3
  <2>9. y = Short(m)
    BY <1>2, <1>6, <2>7, <2>8
  <2>10. QED
    BY <1>8, <2>9 DEF y
<1>9. CASE Occurrences(m, h) = {} /\ ~\A i \in 1..k : s[i] = h[i]
  <2>1. Occurrences(x, h) = {}
    BY <1>4, <1>9
  <2>2. y = x
    BY <1>1, <1>3, <2>1, NothingRemoved DEF y
  <2>3. Len(y) # Len(Short(m))
    BY <1>2, <1>3, <1>6, <2>2
  <2>4. QED
    BY <1>9, <2>3 DEF y
<1>10. QED
  BY <1>7, <1>8, <1>9

\* The parser leaves the documented line exactly when the request fits.
LEMMA RewrittenFits ==
    ASSUME NEW C, Punctuation \subseteq C, NEW m, NEW s, NEW h, Word(C, m), Word(C, s), Word(C, h), h # <<>>,
           Len(s) <= Len(m) + Len(h) + 2
    PROVE  SXStringRemoveOcurrenceOfCString(Trimmed(m, s, h), h) = Short(m) <=> Fits(m, s, h)
<1> DEFINE k == Len(s) - (Len(m) + 1)
           x == Trimmed(m, s, h)
<1>1. m \in Seq(C) /\ s \in Seq(C) /\ h \in Seq(C)
  BY DEF Word
<1>2. Len(m) \in Nat /\ Len(s) \in Nat /\ Len(h) \in Nat
  BY <1>1
<1>3. Fits(m, s, h) <=> k \in 0..Len(h) /\ SubSeq(s, 1, k) = SubSeq(h, 1, k) /\ Occurrences(m, h) = {}
  BY DEF Fits
<1>4. CASE Len(s) <= Len(m)
  <2>1. k \notin 0..Len(h)
    BY <1>2, <1>4
  <2>2. QED
    BY <1>3, <1>4, <2>1, TooShort
<1>5. CASE Len(s) = Len(m) + Len(h) + 2
  <2>1. k \notin 0..Len(h)
    BY <1>2, <1>5
  <2>2. QED
    BY <1>3, <1>5, <2>1, TooLong
<1>6. CASE Len(m) < Len(s) /\ Len(s) < Len(m) + Len(h) + 2
  <2>1. k \in 0..Len(h) /\ k \in Nat /\ Len(s) = Len(m) + 1 + k /\ k <= Len(s) /\ k <= Len(h)
    BY <1>2, <1>6
  <2> HIDE DEF k, x
  <2>2. IsMerged(C, m, s, h, k, x)
    BY <2>1, TrimmedIsMerged DEF x
  <2>3. SXStringRemoveOcurrenceOfCString(x, h) = Short(m)
          <=> (\A i \in 1..k : s[i] = h[i]) /\ Occurrences(m, h) = {}
    BY <2>1, <2>2, MergedRemoved
  <2>4. SubSeq(s, 1, k) = SubSeq(h, 1, k) <=> \A i \in 1..k : s[i] = h[i]
    BY <1>1, <2>1, SameBeginnings
  <2>5. QED
    BY <1>3, <2>1, <2>3, <2>4 DEF x
<1>7. QED
  BY <1>2, <1>4, <1>5, <1>6

-----------------------------------------------------------------------------
(* What the parser says of every request.                                  *)

\* What is said of a request with a scheme.
ParsesRequest(m, s, h) ==
    LET text == Request(m, s, h)
    IN  /\ parseRequestDefined(text) <=> Len(s) <= Len(m) + Len(h) + 2
        /\ parseRequestDefined(text) =>
             /\ parseRequest(text).domain = h
             /\ parseRequest(text).text = Form(m, h) <=> Fits(m, s, h)

\* A request and its documented form differ in their first lines.
LEMMA RequestIsText ==
    ASSUME NEW C, Punctuation \subseteq C, NEW m \in Seq(C), NEW s \in Seq(C), NEW h \in Seq(C)
    PROVE  Request(m, s, h) = Text(m, s, h) /\ Form(m, h) = Short(m) \o BehindLine(h)
<1>1. Line(m, s, h) \in Seq(C)
  BY LineIs, Zenon DEF IsLine
<1>2. Short(m) \in Seq(C)
  BY ShortIs
<1>3. Request(m, s, h) = Line(m, s, h) \o CRLF \o <<"H">> \o Space \o h \o CRLF
  BY Zenon DEF Request, Line
<1>4. Form(m, h) = Short(m) \o CRLF \o <<"H">> \o Space \o h \o CRLF
  BY Zenon DEF Form, Short
<1>5. Line(m, s, h) \o CRLF \o <<"H">> \o Space \o h \o CRLF = Line(m, s, h) \o BehindLine(h)
  BY <1>1, BehindIsBehind, Zenon
<1>6. Short(m) \o CRLF \o <<"H">> \o Space \o h \o CRLF = Short(m) \o BehindLine(h)
  BY <1>2, BehindIsBehind, Zenon
<1>7. QED
  BY <1>3, <1>4, <1>5, <1>6, Zenon DEF Text

\* What stands before the same end is the same.
LEMMA SameBefore ==
    ASSUME NEW C, NEW x \in Seq(C), NEW y \in Seq(C), NEW b \in Seq(C), x \o b = y \o b
    PROVE  x = y
<1>1. Len(x) + Len(b) = Len(y) + Len(b)
  <2>1. Len(x \o b) = Len(x) + Len(b) /\ Len(y \o b) = Len(y) + Len(b)
    OBVIOUS
  <2>2. QED
    BY <2>1
<1>2. Len(x) \in Nat /\ Len(y) \in Nat /\ Len(b) \in Nat
  OBVIOUS
<1>3. Len(x) = Len(y)
  BY <1>1, <1>2
<1>4. Part(x \o b, 0, Len(x)) = x /\ Part(y \o b, 0, Len(y)) = y
  BY PartsOfConcat, Zenon
<1>5. QED
  BY <1>3, <1>4, Zenon

\* Together: what ParserExact says of one request with a scheme.
LEMMA RequestParsed ==
    ASSUME NEW C, Punctuation \subseteq C, NEW m, NEW s, NEW h,
           Word(C, m), Word(C, s), Word(C, h), h # <<>>
    PROVE  ParsesRequest(m, s, h)
<1> DEFINE t == Text(m, s, h)
           x == Trimmed(m, s, h)
           y == SXStringRemoveOcurrenceOfCString(x, h)
           b == BehindLine(h)
<1>1. m \in Seq(C) /\ s \in Seq(C) /\ h \in Seq(C)
  BY DEF Word
<1>2. Request(m, s, h) = t /\ Form(m, h) = Short(m) \o b
  BY <1>1, RequestIsText, Zenon
<1>3. /\ parseRequestDefined(t) <=> Len(s) <= Len(m) + Len(h) + 2
      /\ parseRequestDefined(t) => parseRequest(t).domain = h /\ parseRequest(t).text = y \o b
  <2>1. IsParsed(m, s, h)
    BY ParsedIs
  <2>2. QED
    BY <2>1, Zenon DEF IsParsed
<1> HIDE DEF t, x, b
<1>4. ASSUME parseRequestDefined(t) PROVE y \o b = Short(m) \o b <=> Fits(m, s, h)
  <2>1. Len(s) <= Len(m) + Len(h) + 2
    BY <1>3, <1>4, Zenon
  <2>2. y = Short(m) <=> Fits(m, s, h)
    BY <2>1, RewrittenFits DEF x
  <2>3. x \in Seq(C)
    BY <2>1, TrimmedIsString DEF x
  <2>4. y \in Seq(C)
    BY <1>1, <2>3, RemovedIsString
  <2>5. Short(m) \in Seq(C) /\ b \in Seq(C)
    BY <1>1, ShortIs, BehindIs DEF b
  <2> HIDE DEF y
  <2>6. y \o b = Short(m) \o b => y = Short(m)
    BY <2>4, <2>5, SameBefore, Zenon
  <2>7. QED
    BY <2>2, <2>6, Zenon
<1> HIDE DEF y
<1>5. QED
  BY <1>2, <1>3, <1>4, Zenon DEF ParsesRequest

\* A request without a scheme before its path: there is no separator to find.
LEMMA FormNotParsed ==
    ASSUME NEW C, Punctuation \subseteq C, NEW m, NEW h, Word(C, m), Word(C, h)
    PROVE  ~parseRequestDefined(Form(m, h))
<1> DEFINE M == Len(m)
           l == Short(m)
           t == l \o BehindLine(h)
           locas == SXStringSubCStringLocations(l, Sep)
<1>1. m \in Seq(C) /\ h \in Seq(C) /\ \A i \in 1..M : m[i] # Slash /\ m[i] # Return
  BY DEF Word
<1>2. /\ l \in Seq(C) /\ Len(l) = M + 2
      /\ \A i \in 1..M : l[i] = m[i]
      /\ l[M + 1] = Blank /\ l[M + 2] = Slash
  BY <1>1, ShortIs
<1>3. Form(m, h) = t
  <2>1. m \in Seq(C) /\ h \in Seq(C)
    BY <1>1, Zenon
  <2>2. QED
    BY <2>1, RequestIsText, Zenon
<1>4. M \in Nat
  BY <1>1
<1>5. /\ Sep \in Seq(C) /\ Len(Sep) = 3 /\ Sep[2] = Slash
  BY PunctuationIs
<1> HIDE DEF M, l
<1>6. \A i \in 1..Len(l) : l[i] # Return
  <2>1. ASSUME NEW i \in 1..Len(l) PROVE l[i] # Return
    <3>1. i \in 1..M \/ i = M + 1 \/ i = M + 2
      BY <1>2, <1>4
    <3>2. QED
      BY <1>1, <1>2, <3>1, CharactersDiffer
  <2>2. QED
    BY <2>1
<1>7. Lines(t)[1] = l
  BY <1>2, <1>6, LinesAre
<1> HIDE DEF t
<1>8. Occurrences(l, Sep) = {}
  <2>1. ASSUME NEW i \in Occurrences(l, Sep) PROVE FALSE
    <3>1. i \in Nat
      BY <1>2, OccurrencesAreNat
    <3>2. i + 3 <= M + 2 /\ l[i + 2] = Slash
      BY <1>2, <1>5, <3>1, ThreeRead
    <3>3. i + 2 \in 1..M \/ i + 2 = M + 1
      BY <1>4, <3>1, <3>2
    <3>4. QED
      BY <1>1, <1>2, <3>2, <3>3, CharactersDiffer
  <2>2. QED
    BY <2>1
<1>9. Lists(locas, {})
  BY <1>2, <1>5, <1>8, LocationsList
<1>10. Len(locas) = 0
  <2> HIDE DEF locas
  <2>1. Len(locas) \in Nat /\ \A i \in 1..Len(locas) : FALSE
    BY <1>9 DEF Lists
  <2>2. QED
    BY <2>1
<1>11. SXStringSubStringLocation(l, Sep, 0) = -1
  <2>1. SXStringSubStringLocation(l, Sep, 0) = IF 0 < Len(locas) THEN locas[0 + 1] ELSE -1
    BY DEF SXStringSubStringLocation
  <2> HIDE DEF locas
  <2>2. QED
    BY <1>10, <2>1
<1>12. ~trimURLProtocolDefined(Lines(t)[1], UrlStart(Lines(t)[1]))
  BY <1>7, <1>11 DEF trimURLProtocolDefined
<1>13. QED
  BY <1>3, <1>12, Zenon DEF parseRequestDefined

\* A single line: there is no line to end.
LEMMA SingleNotParsed ==
    ASSUME NEW C, Punctuation \subseteq C, NEW m, NEW h, Word(C, m), Word(C, h)
    PROVE  ~parseRequestDefined(m \o Space \o h)
<1> DEFINE t == m \o Space \o h
<1>1. m \in Seq(C) /\ h \in Seq(C) /\ Lacks(m, Return) /\ Lacks(h, Return)
  BY DEF Word, Lacks
<1>2. Space \in Seq(C) /\ Len(Space) = 1 /\ Space[1] = Blank
      /\ CRLF \in Seq(C) /\ Len(CRLF) = 2 /\ CRLF[1] = Return
  BY PunctuationIs
<1>3. JoinsTwo(C, m, Space, h, t)
  BY <1>1, <1>2, ConcatJoinsTwo, Zenon
<1> HIDE DEF t
<1>4. Len(m) \in Nat /\ Len(h) \in Nat
  BY <1>1
<1>5. ASSUME NEW i \in 1..Len(t) PROVE t[i] # Return
  <2>1. Len(t) = Len(m) + 1 + Len(h)
    BY <1>2, <1>3 DEF JoinsTwo
  <2>2. CASE i \in 1..Len(m)
    BY <1>1, <1>3, <2>2 DEF JoinsTwo, Lacks
  <2>3. CASE i = Len(m) + 1
    <3>1. t[Len(m) + 1] = Blank
      BY <1>2, <1>3 DEF JoinsTwo
    <3>2. QED
      BY <2>3, <3>1, CharactersDiffer
  <2>4. CASE i \in Len(m) + 2..Len(m) + 1 + Len(h)
    <3>1. i - (Len(m) + 1) \in 1..Len(h) /\ Len(m) + 1 + (i - (Len(m) + 1)) = i
      BY <1>4, <2>4
    <3>2. t[Len(m) + 1 + (i - (Len(m) + 1))] = h[i - (Len(m) + 1)]
      BY <1>2, <1>3, <3>1 DEF JoinsTwo
    <3>3. QED
      BY <1>1, <3>1, <3>2 DEF Lacks
  <2>5. QED
    BY <1>4, <2>1, <2>2, <2>3, <2>4
<1>6. t \in Seq(C)
  BY <1>3 DEF JoinsTwo
<1>7. Occurrences(t, CRLF) = {}
  <2>1. ASSUME NEW i \in Occurrences(t, CRLF) PROVE FALSE
    <3>1. i \in Nat
      BY <1>6, OccurrencesAreNat
    <3>2. i + 2 <= Len(t) /\ t[i + 1] = Return
      BY <1>2, <1>6, <3>1, TwoRead
    <3>3. i + 1 \in 1..Len(t)
      BY <1>6, <3>1, <3>2
    <3>4. QED
      BY <1>5, <3>2, <3>3
  <2>2. QED
    BY <2>1
<1>8. ~SXStringSubStringsTrimmedByStringDefined(t, CRLF)
  <2>1. ~Cuttable(t, CRLF)
    BY <1>2, <1>6, <1>7, CuttableIffApart, Zenon
  <2>2. QED
    BY <1>2, <1>6, <2>1, DefinedIsCuttable, Zenon
<1>9. ~parseRequestDefined(t)
  BY <1>8, Zenon DEF parseRequestDefined
<1>10. QED
  BY <1>9 DEF t

\* All parts of requests are words over one alphabet.
RequestAlphabet == Punctuation \cup UNION {ToSet(w) : w \in Methods \cup Schemes \cup Hosts}

\* They are, as the assumption on the constants says.
LEMMA PartsAreWords ==
    \A w \in Methods \cup Schemes \cup Hosts : Word(RequestAlphabet, w)
<1>1. SUFFICES ASSUME NEW w \in Methods \cup Schemes \cup Hosts PROVE Word(RequestAlphabet, w)
  OBVIOUS
<1>2. w \in Seq(ToSet(w)) /\ ToSet(w) \cap {Blank, Slash, Return} = {}
  BY ProxyRequestAssumption, Zenon DEF Blank, Slash, Return
<1>3. ToSet(w) \subseteq RequestAlphabet
  BY DEF RequestAlphabet
<1>4. w \in Seq(RequestAlphabet)
  BY <1>2, <1>3
<1>5. ASSUME NEW i \in 1..Len(w) PROVE w[i] # Blank /\ w[i] # Slash /\ w[i] # Return
  <2>1. w[i] \in ToSet(w)
    BY <1>2
  <2>2. QED
    BY <1>2, <2>1
<1>6. QED
  BY <1>4, <1>5 DEF Word

\* What the parser makes of requests, whatever their methods, schemes and hosts are: when
\* it stays within them, and that exactly those that Fit are rewritten as documented
\* (main.c:54-102).
THEOREM ParserExactHolds == ParserExact
<1> DEFINE C == RequestAlphabet
<1>1. Punctuation \subseteq C
  BY DEF RequestAlphabet
<1> HIDE DEF C
<1>2. \A w \in Methods \cup Schemes \cup Hosts : Word(C, w)
  BY PartsAreWords DEF C
<1>3. ASSUME NEW m \in Methods, NEW h \in Hosts
      PROVE  /\ \A s \in Schemes : ParsesRequest(m, s, h)
             /\ ~parseRequestDefined(Form(m, h))
             /\ ~parseRequestDefined(m \o Space \o h)
  <2>1. Word(C, m) /\ Word(C, h) /\ h # <<>>
    BY <1>2, ProxyRequestAssumption
  <2>2. ASSUME NEW s \in Schemes PROVE ParsesRequest(m, s, h)
    <3>1. Word(C, s)
      BY <1>2
    <3>2. QED
      BY <1>1, <2>1, <3>1, RequestParsed
  <2>3. ~parseRequestDefined(Form(m, h))
    BY <1>1, <2>1, FormNotParsed
  <2>4. ~parseRequestDefined(m \o Space \o h)
    BY <1>1, <2>1, SingleNotParsed
  <2>5. QED
    BY <2>2, <2>3, <2>4
<1>4. QED
  BY <1>3, Zenon DEF ParserExact, ParsesRequest

\* In particular what can be relied on of it.
LEMMA ParserIsSound == ParserSound
<1>1. ASSUME NEW m \in Methods, NEW s \in Schemes, NEW h \in Hosts
      PROVE  LET text == Request(m, s, h)
             IN  /\ Len(s) <= Len(m) + Len(h) + 2 => parseRequestDefined(text)
                 /\ parseRequestDefined(text) => parseRequest(text).domain = h
                 /\ parseRequestDefined(text) /\ Fits(m, s, h)
                      => parseRequest(text).text = Form(m, h)
  BY ParserExactHolds, Zenon DEF ParserExact
<1>2. QED
  BY <1>1, Zenon DEF ParserSound

\* Whenever a worker takes a request apart, the parser stays within it unless its scheme
\* is longer than all of the rest, finds its host, and rewrites it as documented when it
\* Fits, whatever methods, schemes and hosts it is made of (main.c:54-102).
THEOREM RequestsParsedHolds == Spec => []RequestsParsed
<1>1. RequestsParsed
  BY ParserIsSound DEF RequestsParsed
<1>2. QED
  BY <1>1, PTL
=============================================================================
