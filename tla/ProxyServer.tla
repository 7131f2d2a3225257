------------------------------ MODULE ProxyServer ------------------------------
(***************************************************************************)
(* The server of src/Examples/HTTP-proxy, the older copy of the library    *)
(* the proxy is built with.  Its accept loop and its workers are those of  *)
(* SXServer, and so are the names here; what differs is that a server has  *)
(* one reference count, so that SXKillServer gets past its validity test,  *)
(* closes the listening socket and puts a new one in its place, and that   *)
(* SXReleaseQueue frees the queue.                                         *)
(*                                                                         *)
(* killAsked says that a should_terminate stored by SXKillServer stands.   *)
(***************************************************************************)
EXTENDS SXServer

VARIABLES kpc,      \* where the program is in SXKillServer
          sfd,      \* server->socket->sockfd: listening, closed, or bound anew
          tail      \* handler calls of a connection begun since the kill

killVars  == <<kpc, sfd>>
proxyVars == <<vars, killVars, tail>>

KillPc == {"none", "resume", "check", "store", "close", "socket"}

ProxyInit ==
    /\ Init
    /\ kpc = "none" /\ sfd = "bound"
    /\ tail = [c \in Conns |-> 0]

-----------------------------------------------------------------------------
(* SXKillServer, a step for every read and write of what the accept loop   *)
(* reads and writes too.                                                   *)

KillMoves == UNCHANGED <<refVars, freed, countVars, leaked, reg, suspended, queues,
                         netVars, app, late>>

KillStep(l, m) == kpc = l /\ kpc' = m /\ ~freed

\* Neither NULL nor, as ref_count is at least 1, refused; is the server suspended?  A
\* program whose kill stands does not ask again.
KillBegins ==
    /\ "kill" \in Allowed /\ ~killAsked /\ app = <<>> /\ At(Owner, "started")
    /\ KillStep("none", IF stat[Server] = Suspend THEN "resume" ELSE "check")
    /\ KillMoves /\ UNCHANGED <<stat, pc, killAsked, sfd, tail>>

\* SXResumeServer looks again.
KillResumes ==
    /\ KillStep("resume", "check")
    /\ stat' = [stat EXCEPT ![Server] = IF ResumePasses(@) THEN Resuming ELSE @]
    /\ KillMoves /\ UNCHANGED <<pc, killAsked, sfd, tail>>

KillChecks ==
    /\ KillStep("check", IF stat[Server] = ShouldTerminate THEN "none" ELSE "store")
    /\ KillMoves /\ UNCHANGED <<stat, pc, killAsked, sfd, tail>>

KillStores ==
    /\ KillStep("store", "close")
    /\ stat' = [stat EXCEPT ![Server] = ShouldTerminate]
    /\ killAsked' = TRUE
    /\ KillMoves /\ UNCHANGED <<pc, sfd, tail>>

\* Mutant: the listening socket stays open.
KillClosesNothing ==
    /\ KillStep("close", "socket")
    /\ KillMoves /\ UNCHANGED <<stat, pc, killAsked, sfd, tail>>

\* The peers that wait to be accepted are reset.
KillCloses ==
    /\ KillStep("close", "socket")
    /\ sfd' = "closed"
    /\ pc' = [t \in Threads |-> IF At(t, "backlog") THEN "refused" ELSE pc[t]]
    /\ KillMoves /\ UNCHANGED <<stat, killAsked, tail>>

\* SXCreateServerSocket, whatever it ran into, returns a socket; the structure it
\* replaces is lost.
KillBinds ==
    /\ KillStep("socket", "none")
    /\ sfd' = IF sfd = "closed" THEN "bound" ELSE sfd
    /\ KillMoves /\ UNCHANGED <<stat, pc, killAsked, tail>>

Kill == KillResumes \/ KillChecks \/ KillStores \/ KillCloses \/ KillBinds

\* The program's other calls, on the same thread.
ProxyProgram ==
    \/ kpc = "none" /\ UNCHANGED <<killVars, tail>>
       /\ (\/ SXServerStart \/ StatusStore \/ OwnerRelease \/ SXRelease(Owner)
           \/ SXSuspendObject(Server) \/ SXResumeObject(Server))
    \/ KillBegins

-----------------------------------------------------------------------------
(* The accept loop and the workers.                                        *)

\* status = running, whatever was stored before the block started.
ProxyDidStart ==
    /\ Step(Listener, "start", "while") /\ ~freed
    /\ stat' = [stat EXCEPT ![Server] = Running]
    /\ killAsked' = FALSE
    /\ UNCHANGED <<refVars, freed, countVars, leaked, reg, suspended, queues, netVars,
                   app, late, killVars, tail>>

\* SXSocketListen on whatever socket the server has, then the status tests.
ListenAndCheck ==
    /\ Check
    /\ sfd' = IF sfd = "bound" THEN "listening" ELSE sfd
    /\ UNCHANGED <<kpc, tail>>

\* accept on a socket that is closed, under it or before it, or not listening.
AcceptOnClosed ==
    /\ Step(Listener, "accept", "while") /\ ~freed /\ sfd # "listening"
    /\ leaked' = leaked + 1
    /\ UNCHANGED <<stat, refVars, freed, countVars, reg, suspended, queues, netVars, appVars,
                   late, killVars, tail>>

\* accept fails on a peer that has gone: `continue', without --count.
AcceptOnGone(c) ==
    /\ At(Listener, "accept") /\ ~freed /\ At(c, "backlog") /\ peer[c] = "rst"
    /\ pc' = [pc EXCEPT ![Listener] = "while", ![c] = "refused"]
    /\ leaked' = leaked + 1
    /\ UNCHANGED <<stat, refVars, freed, countVars, reg, suspended, queues, netVars, appVars,
                   late, killVars, tail>>

ProxyListenerStep ==
    \/ ProxyDidStart \/ ListenAndCheck \/ AcceptOnClosed
    \/ \E c \in Conns : AcceptOnGone(c)
    \/ /\ \/ While \/ Guests \/ IncLoad \/ IncStore \/ Stop \/ DidKill \/ SXRelease(Listener)
          \/ \E c \in Conns : Accept(c) \/ Refuse(c)
       /\ UNCHANGED <<killVars, tail>>

ProxyConnect(c) == sfd = "listening" /\ Connect(c) /\ UNCHANGED <<killVars, tail>>

\* Bytes are only looked at by a recv: it is enough that they arrive under one.
ProxySend(c) == pc[c] \in {"recv", "srecv"} /\ Send(c) /\ UNCHANGED <<killVars, tail>>

ProxyPeers == \E c \in Conns : \/ ProxyConnect(c) \/ ProxySend(c)
                               \/ Hangup(c) /\ UNCHANGED <<killVars, tail>>

\* recv, and the handler's call counted.
Receives(c) ==
    /\ Recv(c) \/ SuspendedRecv(c)
    /\ tail' = [tail EXCEPT ![c] = IF killAsked /\ pc'[c] \in {"data", "eof"}
                                   THEN @ + 1 ELSE @]
    /\ UNCHANGED killVars

\* SXReleaseQueue takes the count from 1 to 0 and frees the queue.
LeaveFreed(c) ==
    /\ Step(c, "leave", "decStore")
    /\ queues' = queues \ {c}
    /\ Count!Load(c)
    /\ UNCHANGED <<stat, refVars, freed, leaked, suspended, netVars, appVars, late,
                   killVars, tail>>

ProxyWorkerStep(c) ==
    \/ Receives(c) \/ LeaveFreed(c)
    \/ /\ \/ WorkerStart(c) \/ RetainStore(c) \/ Top(c) \/ Switch(c) \/ Resume(c)
          \/ HandlerReturns(c) \/ CloseSocket(c) \/ SXRelease(c) \/ DecStore(c)
       /\ UNCHANGED <<killVars, tail>>

ProxyNext == \/ ProxyProgram \/ Kill \/ ProxyPeers \/ ProxyListenerStep
             \/ \E c \in Conns : ProxyWorkerStep(c)

\* libdispatch runs every block, and a call of SXKillServer that has begun goes on.
ProxySpec == /\ ProxyInit /\ [][ProxyNext]_proxyVars
             /\ WF_proxyVars(ProxyListenerStep) /\ WF_proxyVars(Kill)
             /\ \A c \in Conns : WF_proxyVars(ProxyWorkerStep(c))

-----------------------------------------------------------------------------
(* Properties.                                                             *)

\* A kill ends the accept loop, also one that is blocked in accept or suspended,
\* unless the block had not started and stores running over it, or an update of the
\* server's count was lost and the server freed (SXServer.c:247-265, 341-482).
KillEnds == killAsked ~> (pc[Listener] = "done" \/ ~killAsked \/ freed)

\* From the kill on no connection's data handler is called more than once more,
\* whatever the program does to the server's status then (SXServer.c:252-256, 407-423).
OneMoreAtMost == \A c \in Conns : tail[c] <= 1

\* When the owner has let go of a killed server and every peer has hung up, the
\* server is freed, however the release of the accept loop and those of the workers
\* fall together, unless a resume begun before (an ended server passes its check)
\* keeps the workers turning, or an update of the count was lost or led it to the value
\* that is not counted (SXServer.c:198-219, 237-245, 464-481).
FreedAfterKill ==
    (/\ pc[Owner] = "gone" /\ pc[Listener] # "start" /\ killAsked /\ stat[Server] # Resuming
     /\ \A c \in Conns : peer[c] # "open" \/ At(c, "new"))
        ~> freed \/ refLost \/ ref = Weak

\* What a reader of ConnLife sees of a connection; its queue is freed at the end.
ProxyPhase(c) == CASE pc[c] = "new"                               -> "none"
                   [] pc[c] \in {"backlog", "queued"}             -> "pending"
                   [] pc[c] \in {"retStore", "close"} \cup LoopPc -> "live"
                   [] pc[c] = "refused"                           -> "refused"
                   [] OTHER                                       -> "down"

ProxyLife == INSTANCE ConnLife WITH
            phase    <- [c \in Conns |-> ProxyPhase(c)],
            handling <- [c \in Conns |-> pc[c] \in {"data", "eof"}],
            quiet    <- [c \in Conns |-> Suspended(c)],
            credit   <- [c \in Conns |-> 1 - late[c]]

\* The older server keeps the promises of ConnLife too, with kills that reset the
\* peers still waiting (SXServer.c:333-482).
ProxyImplementsConnLife == ProxyLife!Spec
=============================================================================
