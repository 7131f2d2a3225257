------------------------------ MODULE SXKqueue ------------------------------
(***************************************************************************)
(* SXServerStart_kqueue: one thread waits for the listening socket and for *)
(* every connection in kevent and works through the events it is given,    *)
(* while the program suspends and resumes the server and its connections.  *)
(*                                                                         *)
(* pc of the loop:                                                         *)
(*   off, start            not started; status running, didStart, kqueue   *)
(*   while, kevent         the loop's condition; waiting                   *)
(*   batch                 between two events of what kevent returned      *)
(*   copy, switch          the head of a connection's event                *)
(*   recv, srecv           about to recv in the running, suspend branch    *)
(*   handler, eof          in the data handler, with bytes and with none   *)
(*   shandler              in the data handler, from the suspend branch    *)
(*   resume, test          the resuming branch; `if (s == 0)'              *)
(*   exit                  after the exit label                            *)
(*   ended, failed         the loop is over; kqueue or kevent failed       *)
(***************************************************************************)
EXTENDS Integers, FiniteSets, SXStatus

CONSTANTS Conns,        \* the connections peers may make
          Server,       \* the server, and the event of its listening socket
          MaxGuest,     \* server->max_guest
          MaxUnread,    \* bound: payloads a peer sends ahead of the loop
          Managed,      \* the objects the program suspends and resumes
          Allowed       \* "release", "terminate", "acceptFails", "keventFails", "keepOnEof",
                        \* "vanish": a connection reset in the backlog is gone

Objects == Conns \cup {Server}

ASSUME SXKqueueAssumption ==
    /\ IsFiniteSet(Conns) /\ Server \notin Conns
    /\ MaxGuest \in Nat \ {0} /\ MaxUnread \in Nat
    /\ Managed \subseteq Objects

VARIABLES stat,         \* the status word of the server and of every queue
          owned, freed, \* does the program hold its reference; is the server freed?
          pc,           \* the loop's position
          batch, cur,   \* events not worked on yet; the connection being worked on
          count,        \* the loop's count of guests
          conn,         \* of each connection: new, backlog, open, closed, lost
          inbox, peer,  \* unread payloads; the peer's end
          app,          \* the status store the program is about to make
          late          \* handler calls begun since a suspension took effect

netVars == <<inbox, peer>>
vars == <<stat, owned, freed, pc, batch, cur, count, conn, inbox, peer, app, late>>

EventPc == {"copy", "switch", "recv", "srecv", "handler", "eof", "shandler", "resume", "test", "exit"}
LoopPc  == {"off", "start", "while", "kevent", "batch", "ended", "failed"} \cup EventPc

\* Every variable has its type.
TypeOK ==
    /\ stat \in [Objects -> Status]
    /\ owned \in BOOLEAN /\ freed \in BOOLEAN
    /\ pc \in LoopPc
    /\ batch \subseteq Objects
    /\ cur \in Objects
    /\ count \in Nat
    /\ conn \in [Conns -> {"new", "backlog", "open", "closed", "lost"}]
    /\ inbox \in [Conns -> 0..MaxUnread]
    /\ peer \in [Conns -> {"open", "fin", "rst"}]
    /\ app \in {<<>>} \cup (Objects \X {Suspend, Resuming})
    /\ late \in [Conns -> Nat]

Init ==
    /\ stat = [o \in Objects |-> Idle]
    /\ owned = TRUE /\ freed = FALSE
    /\ pc = "off" /\ batch = {} /\ cur = Server /\ count = 0
    /\ conn = [c \in Conns |-> "new"]
    /\ inbox = [c \in Conns |-> 0]
    /\ peer = [c \in Conns |-> "open"]
    /\ app = <<>>
    /\ late = [c \in Conns |-> 0]

Step(l, m) == pc = l /\ pc' = m

Open == {c \in Conns : conn[c] = "open"}

-----------------------------------------------------------------------------
(* The program.                                                            *)

\* SXRetain, the dispatch, and SXRelease at once: the loop holds no reference.
SXServerStart_kqueue ==
    /\ Step("off", "start")
    /\ UNCHANGED <<stat, owned, freed, batch, cur, count, conn, netVars, app, late>>

Usable(o) == IF o = Server THEN owned /\ pc # "off"
                           ELSE conn[o] = "open" /\ ~(pc = "exit" /\ cur = o)

SXSuspendObject(o) ==
    /\ app = <<>> /\ Usable(o) /\ SuspendPasses(stat[o])
    /\ app' = <<o, Suspend>>
    /\ UNCHANGED <<stat, owned, freed, pc, batch, cur, count, conn, netVars, late>>

SXResumeObject(o) ==
    /\ app = <<>> /\ Usable(o) /\ ResumePasses(stat[o])
    /\ app' = <<o, Resuming>>
    /\ UNCHANGED <<stat, owned, freed, pc, batch, cur, count, conn, netVars, late>>

StatusStore ==
    /\ app # <<>>
    /\ stat' = [stat EXCEPT ![app[1]] = app[2]]
    /\ late' = [c \in Conns |-> IF app[2] = Resuming /\ app[1] \in {c, Server}
                                THEN 0 ELSE late[c]]
    /\ app' = <<>>
    /\ UNCHANGED <<owned, freed, pc, batch, cur, count, conn, netVars>>

\* The program stores should_terminate in the public field.
Terminate ==
    /\ "terminate" \in Allowed /\ app = <<>> /\ Usable(Server)
    /\ stat[Server] # ShouldTerminate
    /\ stat' = [stat EXCEPT ![Server] = ShouldTerminate]
    /\ UNCHANGED <<owned, freed, pc, batch, cur, count, conn, netVars, app, late>>

\* The last reference: SXFreeServer, whatever the loop is doing.
OwnerRelease ==
    /\ "release" \in Allowed /\ app = <<>> /\ Usable(Server)
    /\ owned' = FALSE /\ freed' = TRUE
    /\ UNCHANGED <<stat, pc, batch, cur, count, conn, netVars, app, late>>

Program == \/ SXServerStart_kqueue \/ StatusStore \/ Terminate \/ OwnerRelease
           \/ \E o \in Managed : SXSuspendObject(o) \/ SXResumeObject(o)

-----------------------------------------------------------------------------
(* The peers.                                                              *)

Connect(c) ==
    /\ conn[c] = "new" /\ pc \notin {"off", "start"} /\ ~freed
    /\ conn' = [conn EXCEPT ![c] = "backlog"]
    /\ UNCHANGED <<stat, owned, freed, pc, batch, cur, count, netVars, app, late>>

Send(c) ==
    /\ conn[c] \in {"backlog", "open"} /\ peer[c] = "open" /\ inbox[c] < MaxUnread
    /\ inbox' = [inbox EXCEPT ![c] = @ + 1]
    /\ UNCHANGED <<stat, owned, freed, pc, batch, cur, count, conn, peer, app, late>>

Hangup(c) ==
    /\ conn[c] \in {"backlog", "open"} /\ peer[c] = "open"
    /\ \/ peer' = [peer EXCEPT ![c] = "fin"] /\ UNCHANGED inbox
       \/ peer' = [peer EXCEPT ![c] = "rst"] /\ inbox' = [inbox EXCEPT ![c] = 0]
    /\ \/ UNCHANGED conn
       \/ /\ "vanish" \in Allowed /\ conn[c] = "backlog" /\ peer'[c] = "rst"
          /\ conn' = [conn EXCEPT ![c] = "lost"]
    /\ UNCHANGED <<stat, owned, freed, pc, batch, cur, count, app, late>>

Peers == \E c \in Conns : Connect(c) \/ Send(c) \/ Hangup(c)

-----------------------------------------------------------------------------
(* The loop.                                                               *)

\* The frame of a step that only moves the loop on.
LoopMoves == UNCHANGED <<owned, freed, app>>

\* Status running, didStart, kqueue and the listening socket's filter.
Start ==
    /\ pc = "start"
    /\ \/ pc' = "while"
       \/ pc' = "failed" /\ "keventFails" \in Allowed
    /\ stat' = [stat EXCEPT ![Server] = Running]
    /\ LoopMoves /\ UNCHANGED <<batch, cur, count, conn, netVars, late>>

While ==
    /\ Step("while", IF stat[Server] = ShouldTerminate THEN "ended" ELSE "kevent")
    /\ LoopMoves /\ UNCHANGED <<stat, batch, cur, count, conn, netVars, late>>

\* The filters are level-triggered: what is readable now.
Ready == {c \in Open : inbox[c] > 0 \/ peer[c] # "open"}
         \cup {o \in {Server} : \E c \in Conns : conn[c] = "backlog"}

\* kevent's array has max_guest + 1 places: one call takes every ready event.
Kevent ==
    /\ pc = "kevent"
    /\ \/ /\ Ready # {}
          /\ batch' \in {B \in SUBSET Ready : B = Ready \/ Cardinality(B) = MaxGuest + 1}
          /\ Cardinality(batch') <= MaxGuest + 1
          /\ pc' = "batch"
       \/ "keventFails" \in Allowed /\ pc' = "failed" /\ UNCHANGED batch
    /\ LoopMoves /\ UNCHANGED <<stat, cur, count, conn, netVars, late>>

BatchDone ==
    /\ batch = {} /\ Step("batch", "while")
    /\ LoopMoves /\ UNCHANGED <<stat, batch, cur, count, conn, netVars, late>>

CountFull == count >= MaxGuest

\* The listening socket's event: one accept, unless the server is full; it blocks
\* if the backlog is empty by now.  A failed accept takes no place.
Accept ==
    /\ pc = "batch" /\ Server \in batch
    /\ batch' = batch \ {Server}
    /\ \/ CountFull /\ UNCHANGED <<conn, stat, count>>
       \/ \E c \in Conns :
            /\ ~CountFull /\ conn[c] = "backlog"
            /\ conn' = [conn EXCEPT ![c] = "open"]
            /\ stat' = [stat EXCEPT ![c] = Running]
            /\ count' = count + 1
       \/ \E c \in Conns :
            /\ ~CountFull /\ conn[c] = "backlog" /\ peer[c] = "rst"
            /\ "acceptFails" \in Allowed
            /\ conn' = [conn EXCEPT ![c] = "lost"]
            /\ UNCHANGED <<stat, count>>
    /\ LoopMoves /\ UNCHANGED <<pc, cur, netVars, late>>

\* A connection's event.
Event(c) ==
    /\ c \in batch /\ Step("batch", "copy")
    /\ batch' = batch \ {c}
    /\ cur' = c
    /\ LoopMoves /\ UNCHANGED <<stat, count, conn, netVars, late>>

\* A server that is not running hands its status on.
Copy ==
    /\ Step("copy", "switch")
    /\ stat' = [stat EXCEPT ![cur] = IF stat[Server] # Running THEN stat[Server] ELSE @]
    /\ LoopMoves /\ UNCHANGED <<batch, cur, count, conn, netVars, late>>

\* should_terminate and idle call willKill and exit.
Branch(st) == CASE st = Running  -> "recv"
                [] st = Resuming -> "resume"
                [] st = Suspend  -> "srecv"
                [] OTHER         -> "exit"

Switch ==
    /\ Step("switch", Branch(stat[cur]))
    /\ LoopMoves /\ UNCHANGED <<stat, batch, cur, count, conn, netVars, late>>

Suspended(c) == Suspend \in {stat[c], stat[Server]}
Deliver(c) == late' = [late EXCEPT ![c] = IF Suspended(c) THEN @ + 1 ELSE @]

Take(c) == inbox[c] > 0 /\ inbox' = [inbox EXCEPT ![c] = @ - 1] /\ UNCHANGED peer
AtEof(c) == inbox[c] = 0 /\ peer[c] = "fin" /\ UNCHANGED netVars
Broken(c) == peer[c] = "rst" /\ UNCHANGED netVars

\* Mutant: after a failed recv the next event is taken.
RecvSkipsError ==
    /\ \/ Step("recv", "handler") /\ Take(cur) /\ Deliver(cur)
       \/ Step("recv", "eof") /\ AtEof(cur) /\ Deliver(cur)
       \/ Step("recv", "batch") /\ Broken(cur) /\ UNCHANGED late
    /\ LoopMoves /\ UNCHANGED <<stat, batch, cur, count, conn>>

Recv ==
    /\ \/ Step("recv", "handler") /\ Take(cur) /\ Deliver(cur)
       \/ Step("recv", "eof") /\ AtEof(cur) /\ Deliver(cur)
       \/ Step("recv", "exit") /\ Broken(cur) /\ UNCHANGED late
    /\ LoopMoves /\ UNCHANGED <<stat, batch, cur, count, conn>>

\* The handler returns -1 or 0 and the connection ends, or a positive number.
HandlerReturns ==
    /\ \/ Step("handler", "exit") \/ Step("handler", "batch") \/ Step("eof", "exit")
       \/ Step("eof", "batch") /\ "keepOnEof" \in Allowed
    /\ LoopMoves /\ UNCHANGED <<stat, batch, cur, count, conn, netVars, late>>

\* Status running, didResume.
Resume ==
    /\ Step("resume", "test")
    /\ stat' = [stat EXCEPT ![cur] = Running]
    /\ LoopMoves /\ UNCHANGED <<batch, cur, count, conn, netVars, late>>

\* `if (s == 0)' of an s this branch never set.
Test ==
    /\ (Step("test", "batch") \/ Step("test", "exit"))
    /\ LoopMoves /\ UNCHANGED <<stat, batch, cur, count, conn, netVars, late>>

\* Mutant: the bytes go to the handler whatever the status is by now.
SuspendedTargetStale(st) == "shandler"

\* By the status read after recv.  The case has no break: whatever is done, willKill
\* and the exit follow.
SuspendedTarget(st) == IF st \in {Resuming, Running} THEN "shandler" ELSE "exit"

SuspendedRecv ==
    /\ \/ /\ Step("srecv", SuspendedTarget(stat[cur])) /\ Take(cur)
          /\ IF pc' = "shandler" THEN Deliver(cur) ELSE UNCHANGED late
       \/ Step("srecv", "exit") /\ (AtEof(cur) \/ Broken(cur)) /\ UNCHANGED late
    /\ LoopMoves /\ UNCHANGED <<stat, batch, cur, count, conn>>

SuspendedHandlerReturns ==
    /\ Step("shandler", "exit")
    /\ LoopMoves /\ UNCHANGED <<stat, batch, cur, count, conn, netVars, late>>

\* Mutant: the exit forgets --count.
ExitUncounted ==
    /\ Step("exit", "batch")
    /\ conn' = [conn EXCEPT ![cur] = "closed"]
    /\ LoopMoves /\ UNCHANGED <<stat, batch, cur, count, netVars, late>>

\* Mutant: the exit leaves the connection's other events in the batch.
ExitRequeues ==
    /\ Step("exit", "batch")
    /\ conn' = [conn EXCEPT ![cur] = "closed"]
    /\ count' = count - 1
    /\ batch' = batch \cup {cur}
    /\ LoopMoves /\ UNCHANGED <<stat, cur, netVars, late>>

\* The filter is removed, the descriptor closed, didDisconnect, --count.
Exit ==
    /\ Step("exit", "batch")
    /\ conn' = [conn EXCEPT ![cur] = "closed"]
    /\ count' = count - 1
    /\ LoopMoves /\ UNCHANGED <<stat, batch, cur, netVars, late>>

\* Every step of the loop reads the server: freed under it, its behaviour is
\* undefined, and the model lets it do nothing more.
LoopStep ==
    /\ ~freed
    /\ \/ Start \/ While \/ Kevent \/ BatchDone \/ Accept \/ Copy \/ Switch
       \/ Recv \/ HandlerReturns \/ Resume \/ Test
       \/ SuspendedRecv \/ SuspendedHandlerReturns \/ Exit
       \/ \E c \in Conns : Event(c)

Next == Program \/ Peers \/ LoopStep

Spec == Init /\ [][Next]_vars

\* libdispatch runs the block; kevent returns when something is ready.
FairSpec == Spec /\ WF_vars(LoopStep)

-----------------------------------------------------------------------------
(* Properties.                                                             *)

\* The guests counted are the connections that are open, in every interleaving of
\* accepts, failed accepts and exits within a batch; never more than max_guest, so
\* that the event array of max_guest + 1 places holds every registered descriptor
\* and no ready connection waits for room (SXServer.c:353, 375, 393, 414, 492).
GuestsCounted == /\ count = Cardinality(Open)
                 /\ count <= MaxGuest
                 /\ Cardinality(Ready) <= MaxGuest + 1

\* An event is worked on only for a connection that is open: no exit earlier in the
\* same batch has closed the descriptor or dropped the queue the event carries
\* (SXServer.c:388-492).
EventsLive == /\ pc \in EventPc => conn[cur] = "open" /\ cur \notin batch
              /\ batch \ {Server} \subseteq Open

\* The program's resume of the connection is stored again and again, for ever.
ResumedForEver(c) == []<><<app = <<c, Resuming>> /\ app' = <<>>>>_vars

\* The loop is in accept, and no connection is left for it.
AcceptBlocked == /\ pc = "batch" /\ Server \in batch /\ ~CountFull
                 /\ \A d \in Conns : conn[d] # "backlog"

\* A connection whose peer has hung up is closed in the end by the one thread that
\* serves all of them, with these exceptions: the program resumes the connection for
\* ever; the server comes back to resuming for ever, as it does when it is resumed
\* once and hands the status on at every event (SXServer.c:425-426); the handler keeps
\* the connection for ever at the end of its data; the program ends the server or
\* frees it; kevent fails; accept waits for ever, because the connection the event
\* announced has left the backlog (SXServer.c:391-400).
DeadPeerCleared ==
    \A c \in Conns :
        \/ ResumedForEver(c)
        \/ []<>(stat[Server] = Resuming)
        \/ []<>(pc = "eof" /\ cur = c)
        \/ <>(stat[Server] = ShouldTerminate) \/ <>freed
        \/ <>(pc = "failed")
        \/ <>[]AcceptBlocked
        \/ (peer[c] # "open" /\ conn[c] = "open") ~> conn[c] = "closed"

\* What a reader of ConnLife sees.
PhaseOf(s) == CASE s = "new"     -> "none"
                [] s = "backlog" -> "pending"
                [] s = "open"    -> "live"
                [] s = "lost"    -> "refused"
                [] OTHER         -> "down"

InHandler(c) == cur = c /\ pc \in {"handler", "eof", "shandler"}

Life == INSTANCE ConnLife WITH
            phase    <- [c \in Conns |-> PhaseOf(conn[c])],
            handling <- [c \in Conns |-> InHandler(c)],
            quiet    <- [c \in Conns |-> Suspended(c)],
            credit   <- [c \in Conns |-> 1 - late[c]]

\* The kqueue loop implements ConnLife as the dispatch loop does.
ImplementsConnLife == Life!Spec
=============================================================================
