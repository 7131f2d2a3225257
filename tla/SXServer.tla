------------------------------ MODULE SXServer ------------------------------
(***************************************************************************)
(* The dispatch run loop of SXServer.c: SXServerStart's accept loop, the   *)
(* block it dispatches for every accepted connection, the reference count  *)
(* they share with the program that owns the server, and the program's     *)
(* calls to suspend and resume a server or a connection.                   *)
(*                                                                         *)
(* A thread is the Owner (the program's thread), the Listener (the block   *)
(* of the accept loop) or a connection, which stands for the block that    *)
(* serves it.  A connection also stands for its sx_queue_t and its socket. *)
(*                                                                         *)
(* pc of a connection:                                                     *)
(*   new, backlog        the peer has not connected; it has, nobody        *)
(*                       accepted it                                       *)
(*   queued, retStore    block dispatched; block started, in SXRetain      *)
(*   top, switch         the loop: server status test, status switch       *)
(*   recv, srecv         in recv of the running and of the suspend branch  *)
(*   data, eof           in the data handler, with bytes and with none     *)
(*   resume              in the resuming branch                            *)
(*   close .. closed     after the exit label                              *)
(*   refused             shouldConnect said no: never dispatched           *)
(***************************************************************************)
EXTENDS Integers, FiniteSets, SXStatus

CONSTANTS Conns,        \* the connections peers may make
          Server, Owner, Listener,
          MaxGuest,     \* server->max_guest
          Weak,         \* sx_weak_object: this reference count means "not counted"
          MaxUnread,    \* bound: payloads a peer sends ahead of the worker
          Managed,      \* the objects the program suspends and resumes
          Allowed       \* what the program and the system do in this instance

Behaviours == { "release",      \* the owner releases its reference
                "terminate",    \* the program stores should_terminate
                "kill",         \* the program calls SXKillServer
                "refuse",       \* shouldConnect turns connections down
                "acceptFails",  \* accept returns -1
                "errHandler",   \* an error handler is installed
                "keepOnEof" }   \* the data handler returns > 0 for no data

Threads == Conns \cup {Owner, Listener}
Objects == Conns \cup {Server}

ASSUME SXServerAssumption ==
    /\ IsFiniteSet(Conns)
    /\ \A c \in Conns : c # Server /\ c # Owner /\ c # Listener
    /\ Owner # Listener /\ Server # Owner /\ Server # Listener
    /\ MaxGuest \in Nat
    /\ Weak \in Nat /\ Weak > 1
    /\ MaxUnread \in Nat
    /\ Managed \subseteq Objects
    /\ Allowed \subseteq Behaviours

VARIABLES stat,         \* the status word of the server and of every queue
          ref,          \* server->obj.ref_count
          refLost,      \* has an update of ref been lost?
          freed,        \* has SXFreeServer run?
          count,        \* the accept loop's count of guests
          countLost,    \* has an update of count been lost?
          leaked,       \* guest slots taken by a ++count that no --count undoes
          pc, reg,      \* each thread's position and register
          suspended,    \* the worker's local: has willSuspend been called?
          queues,       \* the sx_queue_t objects that are allocated
          inbox, peer,  \* unread payloads of a socket, and the peer's end of it
          app,          \* the store the program is about to make, <<>> or <<object, status>>
          killAsked,    \* has the program called SXKillServer?
          late          \* handler calls begun since a suspension took effect

refVars   == <<ref, refLost>>
countVars == <<count, countLost>>
netVars   == <<inbox, peer>>
appVars   == <<app, killAsked>>
vars == <<stat, ref, refLost, freed, count, countLost, leaked, pc, reg, suspended,
          queues, inbox, peer, app, killAsked, late>>

Ref   == INSTANCE PlainCounter WITH val <- ref, lost <- refLost
Count == INSTANCE PlainCounter WITH val <- count, lost <- countLost

OwnerPc    == {"created", "started", "gone"}
ListenerPc == {"off", "start", "while", "check", "guests", "inc", "incStore",
               "accept", "stop", "didKill", "done", "crashed"}
LoopPc     == {"top", "switch", "recv", "srecv", "data", "eof", "resume"}
WorkerPc   == {"new", "backlog", "queued", "refused", "retStore", "close", "leave",
               "decStore", "closed"} \cup LoopPc
ReleasePc  == {"release", "relStore", "relTest"}

PcOK ==
    /\ pc \in [Threads -> OwnerPc \cup ListenerPc \cup WorkerPc \cup ReleasePc]
    /\ pc[Owner] \in OwnerPc \cup ReleasePc
    /\ pc[Listener] \in ListenerPc \cup ReleasePc
    /\ \A c \in Conns : pc[c] \in WorkerPc \cup ReleasePc

FlagsOK ==
    /\ refLost \in BOOLEAN /\ countLost \in BOOLEAN
    /\ freed \in BOOLEAN /\ killAsked \in BOOLEAN
    /\ suspended \in [Conns -> BOOLEAN]

NetOK ==
    /\ inbox \in [Conns -> 0..MaxUnread]
    /\ peer \in [Conns -> {"open", "fin", "rst"}]

DataOK ==
    /\ stat \in [Objects -> Status]
    /\ ref \in Int /\ count \in Int /\ leaked \in Nat
    /\ reg \in [Threads -> Int]
    /\ queues \subseteq Conns
    /\ app \in {<<>>} \cup (Objects \X {Suspend, Resuming})
    /\ late \in [Conns -> Nat]

\* Every variable has its type.
TypeOK == PcOK /\ FlagsOK /\ NetOK /\ DataOK

\* SXCreateServer: calloc leaves sx_status_idle, sx_obj_init one reference.
Init ==
    /\ stat = [o \in Objects |-> Idle]
    /\ ref = 1 /\ refLost = FALSE /\ freed = FALSE
    /\ count = 0 /\ countLost = FALSE /\ leaked = 0
    /\ pc = [t \in Threads |-> IF t = Owner THEN "created"
                               ELSE IF t = Listener THEN "off" ELSE "new"]
    /\ reg = [t \in Threads |-> 0]
    /\ suspended = [c \in Conns |-> FALSE]
    /\ queues = {}
    /\ inbox = [c \in Conns |-> 0]
    /\ peer = [c \in Conns |-> "open"]
    /\ app = <<>> /\ killAsked = FALSE
    /\ late = [c \in Conns |-> 0]

At(t, l)      == pc[t] = l
Goto(t, l)    == pc' = [pc EXCEPT ![t] = l]
Step(t, l, m) == At(t, l) /\ Goto(t, m)

-----------------------------------------------------------------------------
(* SXRelease(server), common to every thread.  SXFreeServer finds the      *)
(* server idle or has SXKillServer refused, closes the listening socket    *)
(* and frees the memory; a thread that then dereferences the server has    *)
(* undefined behaviour, and the model lets it do nothing more.             *)

AfterRelease(t) == IF t = Owner THEN "gone"
                   ELSE IF t = Listener THEN "didKill" ELSE "leave"

\* Mutant: the test for sx_weak_object is missing.
SXReleaseLoadCounted(t) ==
    /\ Step(t, "release", "relStore") /\ ~freed
    /\ Ref!Load(t)
    /\ UNCHANGED <<stat, freed, countVars, leaked, suspended, queues, netVars, appVars, late>>

\* The test of ref_count and the load of --ref_count read one value.
SXReleaseLoad(t) ==
    /\ At(t, "release") /\ ~freed
    /\ \/ /\ ref = Weak
          /\ Goto(t, AfterRelease(t))
          /\ UNCHANGED <<refVars, reg>>
       \/ /\ ref # Weak
          /\ Goto(t, "relStore")
          /\ Ref!Load(t)
    /\ UNCHANGED <<stat, freed, countVars, leaked, suspended, queues, netVars, appVars, late>>

SXReleaseStore(t) ==
    /\ Step(t, "relStore", "relTest") /\ ~freed
    /\ Ref!StoreAndKeep(t, -1)
    /\ UNCHANGED <<stat, freed, countVars, leaked, suspended, queues, netVars, appVars, late>>

\* Mutant: the object is freed when one reference is left.
FreesAtOne(t) == \E seen \in {ref, reg[t]} : freed' = (seen = 1)

\* The value tested against 0 is the one just stored or, in a build that
\* reads the field again, what it holds by now.
Frees(t) == \E seen \in {ref, reg[t]} : freed' = (seen = 0)

SXReleaseTest(t) ==
    /\ Step(t, "relTest", AfterRelease(t)) /\ ~freed
    /\ Frees(t)
    /\ reg' = [reg EXCEPT ![t] = 0]
    /\ UNCHANGED <<stat, refVars, countVars, leaked, suspended, queues, netVars, appVars, late>>

SXRelease(t) == SXReleaseLoad(t) \/ SXReleaseStore(t) \/ SXReleaseTest(t)

-----------------------------------------------------------------------------
(* The program: it starts the server, suspends and resumes what it manages *)
(* and may drop its reference.                                             *)

\* SXServerStart: SXRetain on the caller's thread, then the dispatch.
SXServerStart ==
    /\ At(Owner, "created")
    /\ ref' = ref + 1
    /\ pc' = [pc EXCEPT ![Owner] = "started", ![Listener] = "start"]
    /\ UNCHANGED <<stat, refLost, freed, countVars, leaked, reg, suspended, queues,
                   netVars, appVars, late>>

\* The program may call on the server while it holds it, and on a queue from
\* didConnect to didDisconnect.
Usable(o) == IF o = Server THEN At(Owner, "started") ELSE pc[o] \in LoopPc

\* SXSuspendObject and SXResumeObject: the status check ...
SXSuspendObject(o) ==
    /\ app = <<>> /\ Usable(o)
    /\ SuspendPasses(stat[o])
    /\ app' = <<o, Suspend>>
    /\ UNCHANGED <<stat, refVars, freed, countVars, leaked, pc, reg, suspended, queues,
                   netVars, killAsked, late>>

SXResumeObject(o) ==
    /\ app = <<>> /\ Usable(o)
    /\ ResumePasses(stat[o])
    /\ app' = <<o, Resuming>>
    /\ UNCHANGED <<stat, refVars, freed, countVars, leaked, pc, reg, suspended, queues,
                   netVars, killAsked, late>>

\* ... and the store, made without looking again.
StatusStore ==
    /\ app # <<>> /\ ~freed
    /\ stat' = [stat EXCEPT ![app[1]] = app[2]]
    /\ late' = [c \in Conns |-> IF app[2] = Resuming /\ app[1] \in {c, Server}
                                THEN 0 ELSE late[c]]
    /\ app' = <<>>
    /\ UNCHANGED <<refVars, freed, countVars, leaked, pc, reg, suspended, queues,
                   netVars, killAsked>>

\* server->ref_count, a field of its own beside obj.ref_count: calloc sets it
\* to 0 and nothing assigns it.
ServerRefCount == 0

\* SXKillServer (and SXSuspendServer, SXResumeServer): the validity test
\* fails, the rest of the function is never reached.
SXKillServer ==
    /\ "kill" \in Allowed
    /\ app = <<>> /\ At(Owner, "started") /\ ~killAsked
    /\ ServerRefCount = 0
    /\ killAsked' = TRUE
    /\ UNCHANGED <<stat, refVars, freed, countVars, leaked, pc, reg, suspended, queues,
                   netVars, app, late>>

\* The program stores should_terminate in the public field itself.
Terminate ==
    /\ "terminate" \in Allowed
    /\ app = <<>> /\ At(Owner, "started")
    /\ stat[Server] # ShouldTerminate
    /\ stat' = [stat EXCEPT ![Server] = ShouldTerminate]
    /\ UNCHANGED <<refVars, freed, countVars, leaked, pc, reg, suspended, queues,
                   netVars, appVars, late>>

OwnerRelease ==
    /\ "release" \in Allowed
    /\ app = <<>>
    /\ Step(Owner, "started", "release")
    /\ UNCHANGED <<stat, refVars, freed, countVars, leaked, reg, suspended, queues,
                   netVars, appVars, late>>

Program == \/ SXServerStart \/ StatusStore \/ SXKillServer \/ Terminate \/ OwnerRelease
           \/ \E o \in Managed : SXSuspendObject(o) \/ SXResumeObject(o)
           \/ SXRelease(Owner)

-----------------------------------------------------------------------------
(* The peers: connect, send, close, reset.                                 *)

FdOpen(c) == pc[c] \in {"backlog", "queued", "retStore", "close"} \cup LoopPc

Connect(c) ==
    /\ Step(c, "new", "backlog") /\ ~freed
    /\ pc[Listener] \notin {"off", "start"}
    /\ UNCHANGED <<stat, refVars, freed, countVars, leaked, reg, suspended, queues,
                   netVars, appVars, late>>

Send(c) ==
    /\ FdOpen(c) /\ peer[c] = "open" /\ inbox[c] < MaxUnread
    /\ inbox' = [inbox EXCEPT ![c] = @ + 1]
    /\ UNCHANGED <<stat, refVars, freed, countVars, leaked, pc, reg, suspended, queues,
                   peer, appVars, late>>

\* A reset discards what was not read yet, a close does not.
Hangup(c) ==
    /\ FdOpen(c) /\ peer[c] = "open"
    /\ \/ peer' = [peer EXCEPT ![c] = "fin"] /\ UNCHANGED inbox
       \/ peer' = [peer EXCEPT ![c] = "rst"] /\ inbox' = [inbox EXCEPT ![c] = 0]
    /\ UNCHANGED <<stat, refVars, freed, countVars, leaked, pc, reg, suspended, queues,
                   appVars, late>>

Peers == \E c \in Conns : Connect(c) \/ Send(c) \/ Hangup(c)

-----------------------------------------------------------------------------
(* The accept loop.                                                        *)

\* The frame of a step that only moves the listener on.
ListenerMoves == UNCHANGED <<refVars, freed, countVars, leaked, reg, suspended, queues,
                             netVars, appVars, late>>

DidStart ==
    /\ Step(Listener, "start", "while") /\ ~freed
    /\ stat' = [stat EXCEPT ![Server] = Running]
    /\ ListenerMoves

\* The loop condition.
While ==
    /\ At(Listener, "while") /\ ~freed
    /\ Goto(Listener, IF stat[Server] = ShouldTerminate THEN "stop" ELSE "check")
    /\ ListenerMoves /\ UNCHANGED stat

\* SXSocketListen, whose result is ignored, then the two status tests.
Check ==
    /\ At(Listener, "check") /\ ~freed
    /\ Goto(Listener, IF stat[Server] = ShouldTerminate THEN "stop"
                      ELSE IF stat[Server] = Suspend THEN "while" ELSE "guests")
    /\ ListenerMoves /\ UNCHANGED stat

\* Mutant: one guest too many.
CountFullOffByOne == count < 0 \/ count > MaxGuest

\* count is an int, max_guest a size_t: a negative count compares as huge.
CountFull == count < 0 \/ count >= MaxGuest

Guests ==
    /\ At(Listener, "guests") /\ ~freed
    /\ Goto(Listener, IF CountFull THEN "while" ELSE "inc")
    /\ ListenerMoves /\ UNCHANGED stat

IncLoad ==
    /\ Step(Listener, "inc", "incStore")
    /\ Count!Load(Listener)
    /\ UNCHANGED <<stat, refVars, freed, leaked, suspended, queues, netVars, appVars, late>>

IncStore ==
    /\ Step(Listener, "incStore", "accept")
    /\ Count!Store(Listener, 1)
    /\ UNCHANGED <<stat, refVars, freed, leaked, suspended, queues, netVars, appVars, late>>

\* accept, a shouldConnect that agrees or is not installed, dispatch_async.
Accept(c) ==
    /\ At(Listener, "accept") /\ ~freed /\ At(c, "backlog")
    /\ pc' = [pc EXCEPT ![Listener] = "while", ![c] = "queued"]
    /\ ListenerMoves /\ UNCHANGED stat

\* shouldConnect says no: neither close(sock.sockfd) nor --count.
Refuse(c) ==
    /\ "refuse" \in Allowed
    /\ At(Listener, "accept") /\ ~freed /\ At(c, "backlog")
    /\ pc' = [pc EXCEPT ![Listener] = "while", ![c] = "refused"]
    /\ leaked' = leaked + 1
    /\ UNCHANGED <<stat, refVars, freed, countVars, reg, suspended, queues, netVars, appVars, late>>

\* accept fails on a connection whose peer has gone: the slot stays taken, and
\* without an error handler the call through the NULL block ends the process.
AcceptFails(c) ==
    /\ "acceptFails" \in Allowed
    /\ At(Listener, "accept") /\ ~freed /\ At(c, "backlog") /\ peer[c] = "rst"
    /\ pc' = [pc EXCEPT ![Listener] = IF "errHandler" \in Allowed THEN "while" ELSE "crashed",
                        ![c] = "closed"]
    /\ leaked' = leaked + 1
    /\ UNCHANGED <<stat, refVars, freed, countVars, reg, suspended, queues, netVars, appVars, late>>

\* Mutant: the accept loop ends without SXRelease(server).
StopHolding ==
    /\ Step(Listener, "stop", "didKill") /\ ~freed
    /\ stat' = [stat EXCEPT ![Server] = Idle]
    /\ ListenerMoves

\* After the loop: status idle, SXRelease(server), didKill.
Stop ==
    /\ Step(Listener, "stop", "release") /\ ~freed
    /\ stat' = [stat EXCEPT ![Server] = Idle]
    /\ ListenerMoves

\* Reads server->didKill_block, after the release.
DidKill ==
    /\ Step(Listener, "didKill", "done") /\ ~freed
    /\ ListenerMoves /\ UNCHANGED stat

ListenerStep ==
    \/ DidStart \/ While \/ Check \/ Guests \/ IncLoad \/ IncStore \/ Stop \/ DidKill
    \/ \E c \in Conns : Accept(c) \/ Refuse(c) \/ AcceptFails(c)
    \/ SXRelease(Listener)

-----------------------------------------------------------------------------
(* The block of a connection.                                              *)

\* The frame of a step that only moves the worker on.
WorkerMoves == UNCHANGED <<refVars, freed, countVars, leaked, reg, queues, appVars>>

\* SXCreateQueue, status running, the handlers copied, SXRetain(server).
WorkerStart(c) ==
    /\ At(c, "queued") /\ ~freed
    /\ queues' = queues \cup {c}
    /\ stat' = [stat EXCEPT ![c] = Running]
    /\ \/ ref = Weak /\ Goto(c, "top") /\ UNCHANGED <<refVars, reg>>
       \/ ref # Weak /\ Goto(c, "retStore") /\ Ref!Load(c)
    /\ UNCHANGED <<freed, countVars, leaked, suspended, netVars, appVars, late>>

\* Mutant: the block does not retain the server.
RetainNothing(c) ==
    /\ Step(c, "retStore", "top")
    /\ WorkerMoves /\ UNCHANGED <<stat, suspended, netVars, late>>

\* The rest of SXRetain, then didConnect.
RetainStore(c) ==
    /\ Step(c, "retStore", "top") /\ ~freed
    /\ Ref!Store(c, 1)
    /\ UNCHANGED <<stat, freed, countVars, leaked, suspended, queues, netVars, appVars, late>>

\* Mutant: the loop does not look at the server.
TopBlind(c) ==
    /\ Step(c, "top", "switch")
    /\ WorkerMoves /\ UNCHANGED <<stat, suspended, netVars, late>>

\* The head of the loop: a server that is not running hands its status on.
Top(c) ==
    /\ Step(c, "top", "switch") /\ ~freed
    /\ stat' = [stat EXCEPT ![c] = IF stat[Server] # Running THEN stat[Server] ELSE @]
    /\ WorkerMoves /\ UNCHANGED <<suspended, netVars, late>>

\* The branch of the switch; should_terminate and idle call willKill and exit.
Branch(s) == CASE s = Running  -> "recv"
               [] s = Resuming -> "resume"
               [] s = Suspend  -> "srecv"
               [] OTHER        -> "close"

Switch(c) ==
    /\ Step(c, "switch", Branch(stat[c]))
    /\ suspended' = [suspended EXCEPT ![c] = @ \/ stat[c] = Suspend]
    /\ WorkerMoves /\ UNCHANGED <<stat, netVars, late>>

\* Status running, didResume.
Resume(c) ==
    /\ Step(c, "resume", "top")
    /\ stat' = [stat EXCEPT ![c] = Running]
    /\ WorkerMoves /\ UNCHANGED <<suspended, netVars, late>>

Suspended(c) == Suspend \in {stat[c], stat[Server]}

\* The data handler is called: late when the connection is suspended by now.
Deliver(c) == late' = [late EXCEPT ![c] = IF Suspended(c) THEN @ + 1 ELSE @]

Read(c) == /\ inbox[c] > 0
           /\ inbox' = [inbox EXCEPT ![c] = @ - 1]
           /\ UNCHANGED peer
AtEof(c) == inbox[c] = 0 /\ peer[c] = "fin" /\ UNCHANGED netVars
Broken(c) == peer[c] = "rst" /\ UNCHANGED netVars

\* The running branch calls the handler for what recv returns, 0 included.
Recv(c) ==
    /\ At(c, "recv") /\ ~freed
    /\ \/ Read(c) /\ Goto(c, "data") /\ Deliver(c)
       \/ AtEof(c) /\ Goto(c, "eof") /\ Deliver(c)
       \/ Broken(c) /\ Goto(c, "close") /\ UNCHANGED late
    /\ WorkerMoves /\ UNCHANGED <<stat, suspended>>

\* Mutant: the suspend branch uses the status the switch saw.
SuspendedTargetStale(s) == "data"

\* What the suspend branch does with the bytes, by the status read after recv.
SuspendedTarget(s) == CASE s \in {ShouldTerminate, Idle} -> "close"
                        [] s \in {Resuming, Running}     -> "data"
                        [] OTHER                         -> "top"

\* Mutant: the suspend branch exits on an error only.
SuspendedRecvNoEof(c) ==
    /\ At(c, "srecv") /\ ~freed
    /\ \/ /\ Read(c) /\ Goto(c, SuspendedTarget(stat[c]))
          /\ IF SuspendedTarget(stat[c]) = "data" THEN Deliver(c) ELSE UNCHANGED late
       \/ AtEof(c) /\ Goto(c, "top") /\ UNCHANGED late
       \/ Broken(c) /\ Goto(c, "close") /\ UNCHANGED late
    /\ WorkerMoves /\ UNCHANGED <<stat, suspended>>

SuspendedRecv(c) ==
    /\ At(c, "srecv") /\ ~freed
    /\ \/ /\ Read(c) /\ Goto(c, SuspendedTarget(stat[c]))
          /\ IF SuspendedTarget(stat[c]) = "data" THEN Deliver(c) ELSE UNCHANGED late
       \/ (AtEof(c) \/ Broken(c)) /\ Goto(c, "close") /\ UNCHANGED late
    /\ WorkerMoves /\ UNCHANGED <<stat, suspended>>

\* The handler returns: `while (s > 0)', s unsigned.
HandlerReturns(c) ==
    /\ \/ At(c, "data") /\ (Goto(c, "top") \/ Goto(c, "close"))
       \/ At(c, "eof") /\ Goto(c, "close")
       \/ At(c, "eof") /\ "keepOnEof" \in Allowed /\ Goto(c, "top")
    /\ WorkerMoves /\ UNCHANGED <<stat, suspended, netVars, late>>

\* exit: close, didDisconnect.
CloseSocket(c) ==
    /\ Step(c, "close", "release")
    /\ WorkerMoves /\ UNCHANGED <<stat, suspended, netVars, late>>

\* Mutant: SXCreateQueue counts the reference in the queue it creates.
QueueRefCountOne == 1

\* SXCreateQueue passes the socket's object, not the queue's, to sx_obj_init:
\* the queue's own count stays 0.
QueueRefCount == 0

\* Mutant: the block ends without --count.
LeaveUncounted(c) ==
    /\ Step(c, "leave", "closed")
    /\ WorkerMoves /\ UNCHANGED <<stat, suspended, netVars, late>>

\* SXRelease(queue) frees the queue if its count is then 0; the load of --count.
Leave(c) ==
    /\ Step(c, "leave", "decStore")
    /\ queues' = IF QueueRefCount - 1 = 0 THEN queues \ {c} ELSE queues
    /\ Count!Load(c)
    /\ UNCHANGED <<stat, refVars, freed, leaked, suspended, netVars, appVars, late>>

DecStore(c) ==
    /\ Step(c, "decStore", "closed")
    /\ Count!Store(c, -1)
    /\ UNCHANGED <<stat, refVars, freed, leaked, suspended, queues, netVars, appVars, late>>

WorkerStep(c) ==
    \/ WorkerStart(c) \/ RetainStore(c) \/ Top(c) \/ Switch(c) \/ Resume(c)
    \/ Recv(c) \/ SuspendedRecv(c) \/ HandlerReturns(c)
    \/ CloseSocket(c) \/ SXRelease(c) \/ Leave(c) \/ DecStore(c)

Next == Program \/ Peers \/ ListenerStep \/ \E c \in Conns : WorkerStep(c)

\* libdispatch runs every block it was given; peers and program owe nothing.
Fairness == WF_vars(ListenerStep) /\ \A c \in Conns : WF_vars(WorkerStep(c))

Spec     == Init /\ [][Next]_vars
FairSpec == Spec /\ Fairness

-----------------------------------------------------------------------------
(* Properties.                                                             *)

Done == {"new", "backlog", "refused", "closed"}

\* Where a thread holds a counted reference to the server.
HoldingPc == {"created", "started"}
             \cup {"start", "while", "check", "guests", "inc", "incStore", "accept",
                   "stop", "crashed"}
             \cup LoopPc \cup {"close", "release", "relStore"}

Holders == {t \in Threads : pc[t] \in HoldingPc}

\* The threads that hold a guest slot: a worker from the dispatch to --count, the
\* listener between ++count and the dispatch.
SlotHolders == {c \in Conns : pc[c] \notin Done}
               \cup {t \in {Listener} : pc[t] = "accept"}

\* Until an unsynchronised ++ or -- of the accept loop's `count' overwrites
\* another, count is the number of slots in use plus those lost to a refused
\* connection or a failed accept (SXServer.c:222-235, 323).
SlotAccounting == ~countLost => count = Cardinality(SlotHolders) + leaked

\* Until such an overwrite, no interleaving of the accept loop with ending
\* connections lets more than max_guest connections be served (SXServer.c:219).
GuestLimit == ~countLost => Cardinality(SlotHolders) + leaked <= MaxGuest

\* Until an unsynchronised SXRetain or SXRelease overwrites another, the server's
\* reference count is the number of threads that took a reference and have not
\* given it back, or has reached the value that turns counting off.
RefAccounting == ~refLost /\ ~freed => ref = Weak \/ ref = Cardinality(Holders)

\* While nothing can end the accept loop, its reference keeps the server
\* allocated, whatever the owner and the connections release, as long as no
\* update of the count is lost (SXServer.c:205, 256, 321, 328).
ServerAlive == ~refLost => ~freed

\* When owner, accept loop and connections have all let go and the counting was
\* exact, the server has been freed (sx_object.c:60-68).
NoServerLeak ==
    /\ pc[Owner] = "gone" /\ pc[Listener] = "done"
    /\ \A c \in Conns : pc[c] \in Done
    /\ ~refLost /\ ref # Weak
    => freed

\* When the accept loop calls didKill after its release, the server may have been
\* freed, but only if the owner has let go of it before (SXServer.c:328-332).
DidKillAlive ==
    At(Listener, "didKill") /\ freed /\ ~refLost => pc[Owner] \in {"relTest", "gone"}

\* A server whose count reaches sx_weak_object stays uncounted: no store of a
\* retain or release begun before moves it away (sx_object.c:53, 62), unless
\* that store loses an update.
WeakSticky == [][ref = Weak /\ ~refLost' => ref' = Weak]_vars

\* A suspension lets at most one more handler call begin on a connection: the
\* one for the recv the worker was in, or about to enter, when the status changed
\* (SXServer.c:268-305).
LateDeliveryBound == \A c \in Conns : late[c] <= 1

\* The store of SXSuspendObject or SXResumeObject never lands in a freed queue,
\* although the connection may have ended since the program's check
\* (sx_object.c:33-35, SXServer.c:322).
QueueHandleValid == app # <<>> /\ app[1] \in Conns => app[1] \in queues

\* The program's resume of the connection is stored again and again, for ever.
ResumedForEver(c) == []<><<app = <<c, Resuming>> /\ app' = <<>>>>_vars

\* Every accepted connection whose peer has hung up, wherever its worker is by then,
\* is eventually closed and gives its slot back, suspended or not, with four
\* exceptions: the program resumes the connection for ever; the server comes back to
\* resuming for ever, as it does when it is resumed once and hands the status on at
\* every turn (SXServer.c:265); the handler keeps the connection for ever at the end
\* of its data; an update of the server's count was lost and the server freed
\* (SXServer.c:262-323).
DeadPeerCleared ==
    \A c \in Conns :
        \/ ResumedForEver(c)
        \/ []<>(stat[Server] = Resuming)
        \/ []<>(pc[c] = "eof")
        \/ <>freed
        \/ (peer[c] # "open" /\ pc[c] \in {"queued", "retStore", "close"} \cup LoopPc)
              ~> pc[c] = "closed"

\* What a reader of ConnLife sees of a connection of this server.
Phase(c) == CASE pc[c] = "new"                                  -> "none"
              [] pc[c] \in {"backlog", "queued"}                -> "pending"
              [] pc[c] \in {"retStore", "close"} \cup LoopPc    -> "live"
              [] pc[c] = "refused" \/ (pc[c] = "closed" /\ c \notin queues) -> "refused"
              [] OTHER                                          -> "down"

Life == INSTANCE ConnLife WITH
            phase    <- [c \in Conns |-> Phase(c)],
            handling <- [c \in Conns |-> pc[c] \in {"data", "eof"}],
            quiet    <- [c \in Conns |-> Suspended(c)],
            credit   <- [c \in Conns |-> 1 - late[c]]

\* The server's accept loop, workers and program together implement ConnLife:
\* one handler call at a time, none outside the connection's life, no close under
\* a running handler, and one late call per suspension (SXServer.c:191-333).
ImplementsConnLife == Life!Spec

\* The inductive invariants behind RefAccounting and ServerAlive ...
RefInv ==
    /\ RefAccounting
    /\ \A t \in Threads : pc[t] \in {"retStore", "relStore"} => reg[t] # Weak
    /\ pc[Owner] = "created" <=> pc[Listener] = "off"
    /\ pc[Owner] = "created" => ref = 1
    /\ pc[Listener] \in {"off", "start"} => \A c \in Conns : pc[c] = "new"

AliveInv ==
    /\ \A o \in Objects : stat[o] # ShouldTerminate
    /\ pc[Listener] \notin {"stop", "didKill", "done"} \cup ReleasePc
    /\ ~refLost => ~freed /\ \A t \in Threads : pc[t] = "relTest" => reg[t] # 0

\* ... and behind SlotAccounting and GuestLimit.
SlotInv ==
    /\ SlotAccounting
    /\ GuestLimit
    /\ ~countLost /\ pc[Listener] \in {"inc", "incStore"}
         => Cardinality(SlotHolders) + leaked < MaxGuest

\* Swift/readme.md:7, sx_object.h:54: every runtime object can be suspended and
\* resumed; a resumed server's connections get to their unread data again.
ResumeDelivers ==
    \A c \in Conns : (stat[Server] = Resuming /\ pc[c] \in LoopPc /\ inbox[c] > 0)
                        ~> (inbox[c] = 0 \/ stat[Server] # Resuming)

=============================================================================
