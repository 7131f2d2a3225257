---------------------------- MODULE SwiftServer ----------------------------
(***************************************************************************)
(* The Swift port: SXStreamServer.start, the accept loop, and SXQueue.start*)
(* with SXStreamQueue, the block of one connection.  Objects are freed by  *)
(* reference counting of the language; what the program stores in `status' *)
(* it stores without a check, there being no call for it.                  *)
(*                                                                         *)
(* pc of a connection:                                                     *)
(*   new, backlog, queued   not connected; not accepted; not started       *)
(*   refused, dropped       shouldConnect said no; over the guest limit    *)
(*   top, switch            the head of the loop                           *)
(*   recv, data             handleData: in recv, in didReceiveData         *)
(*   resume, srecv          the other branches                             *)
(*   rnote, snote, knote    about to read the status for statusDidChange   *)
(*   rstore, sstore, kstore inside statusDidChange                         *)
(*   copy, again            a second read of a status just tested          *)
(*   while                  the loop's condition                           *)
(*   close, leave, decStore the completion                                 *)
(***************************************************************************)
EXTENDS Integers, FiniteSets, SXStatus

CONSTANTS Conns, Server,
          Limits,       \* what maxGuest may be set to when the server is made
          MaxUnread,    \* bound: payloads a peer sends ahead of the worker
          Managed,      \* the objects the program suspends and resumes
          Resumes,      \* what the program stores to resume: RESUMMING, RUNNING
          Allowed       \* "terminate", "refuse", "acceptFails", "listenFails"

Objects == Conns \cup {Server}

ASSUME SwiftServerAssumption ==
    /\ IsFiniteSet(Conns) /\ Server \notin Conns
    /\ Limits \subseteq Nat /\ MaxUnread \in Nat
    /\ Managed \subseteq Objects
    /\ Resumes \subseteq {Resuming, Running}

VARIABLES maxGuest,     \* server.maxGuest
          stat,         \* status of the server and of every queue
          lpc,          \* the accept loop's position
          pc, reg,      \* each connection's position, its register for `count'
          note,         \* the status each connection's statusDidChange will store
          s, suspended, \* the locals of SXQueue.start
          count, lost,  \* the guests counted; has an update been lost?
          known,        \* connections the program has met in didReceiveData
          asked,        \* objects the program has suspended and not resumed
          held,         \* history: those of them whose suspension took effect
          inbox, peer,  \* unread payloads; the peer's end
          late          \* data handler calls begun since a suspension took effect

netVars   == <<inbox, peer>>
countVars == <<count, lost>>
loopVars  == <<note, s, suspended>>
appVars   == <<known, asked, maxGuest>>
vars == <<maxGuest, stat, lpc, pc, reg, note, s, suspended, count, lost, known, asked,
          held, inbox, peer, late>>

Count == INSTANCE PlainCounter WITH val <- count

LoopPc == {"top", "copy", "switch", "recv", "data", "eof", "resume", "srecv", "again",
           "rnote", "snote", "knote", "rstore", "sstore", "kstore", "while"}
ConnPc == {"new", "backlog", "queued", "refused", "dropped", "close", "leave", "decStore",
           "closed"} \cup LoopPc

\* Every variable has its type.
TypeOK ==
    /\ maxGuest \in Limits /\ stat \in [Objects -> Status]
    /\ lpc \in {"off", "start", "while", "check", "accept", "stop", "done", "failed"}
    /\ pc \in [Conns -> ConnPc]
    /\ reg \in [Conns -> Int] /\ note \in [Conns -> Status]
    /\ s \in [Conns -> {0, 1}] /\ suspended \in [Conns -> BOOLEAN]
    /\ count \in Int /\ lost \in BOOLEAN
    /\ known \subseteq Conns /\ asked \subseteq Objects /\ held \subseteq asked
    /\ inbox \in [Conns -> 0..MaxUnread]
    /\ peer \in [Conns -> {"open", "fin", "rst"}]
    /\ late \in [Conns -> 0..1]

Init ==
    /\ maxGuest \in Limits
    /\ stat = [o \in Objects |-> Idle]
    /\ lpc = "off"
    /\ pc = [c \in Conns |-> "new"]
    /\ reg = [c \in Conns |-> 0] /\ note = [c \in Conns |-> Idle]
    /\ s = [c \in Conns |-> 0] /\ suspended = [c \in Conns |-> FALSE]
    /\ count = 0 /\ lost = FALSE
    /\ known = {} /\ asked = {} /\ held = {}
    /\ inbox = [c \in Conns |-> 0]
    /\ peer = [c \in Conns |-> "open"]
    /\ late = [c \in Conns |-> 0]

At(c, l)      == pc[c] = l
Goto(c, l)    == pc' = [pc EXCEPT ![c] = l]
Step(c, l, m) == At(c, l) /\ Goto(c, m)
Listener(l, m) == lpc = l /\ lpc' = m

-----------------------------------------------------------------------------
(* The program.                                                            *)

Start ==
    /\ Listener("off", "start")
    /\ UNCHANGED <<stat, pc, reg, loopVars, countVars, appVars, netVars, late>>

\* The program holds the server, and a queue from its first didReceiveData until
\* objectDidDisconnect.
Usable(o) == IF o = Server THEN lpc # "off" ELSE o \in known /\ pc[o] \in LoopPc \cup {"close"}

SuspendObject(o) ==
    /\ Usable(o) /\ o \notin asked
    /\ stat' = [stat EXCEPT ![o] = Suspend]
    /\ asked' = asked \cup {o}
    /\ UNCHANGED <<lpc, pc, reg, loopVars, countVars, known, maxGuest, netVars, late>>

ResumeObject(o) ==
    /\ Usable(o) /\ o \in asked
    /\ \E st \in Resumes : stat' = [stat EXCEPT ![o] = st]
    /\ asked' = asked \ {o}
    /\ late' = [c \in Conns |-> IF o \in {c, Server} THEN 0 ELSE late[c]]
    /\ UNCHANGED <<lpc, pc, reg, loopVars, countVars, known, maxGuest, netVars>>

Terminate ==
    /\ "terminate" \in Allowed /\ Usable(Server) /\ stat[Server] # ShouldTerminate
    /\ stat' = [stat EXCEPT ![Server] = ShouldTerminate]
    /\ UNCHANGED <<lpc, pc, reg, loopVars, countVars, appVars, netVars, late>>

Program == Start \/ Terminate \/ \E o \in Managed : SuspendObject(o) \/ ResumeObject(o)

-----------------------------------------------------------------------------
(* The peers.                                                              *)

FdOpen(c) == pc[c] \in {"backlog", "queued", "dropped", "close"} \cup LoopPc

Connect(c) ==
    /\ Step(c, "new", "backlog") /\ lpc \notin {"off", "start", "done"}
    /\ UNCHANGED <<stat, lpc, reg, loopVars, countVars, appVars, netVars, late>>

Send(c) ==
    /\ FdOpen(c) /\ peer[c] = "open" /\ inbox[c] < MaxUnread
    /\ inbox' = [inbox EXCEPT ![c] = @ + 1]
    /\ UNCHANGED <<stat, lpc, pc, reg, loopVars, countVars, appVars, peer, late>>

Hangup(c) ==
    /\ FdOpen(c) /\ peer[c] = "open"
    /\ \/ peer' = [peer EXCEPT ![c] = "fin"] /\ UNCHANGED inbox
       \/ peer' = [peer EXCEPT ![c] = "rst"] /\ inbox' = [inbox EXCEPT ![c] = 0]
    /\ UNCHANGED <<stat, lpc, pc, reg, loopVars, countVars, appVars, late>>

Peers == \E c \in Conns : Connect(c) \/ Send(c) \/ Hangup(c)

-----------------------------------------------------------------------------
(* The accept loop.                                                        *)

ListenerMoves == UNCHANGED <<reg, loopVars, appVars, netVars, late>>

DidStart ==
    /\ Listener("start", "while")
    /\ stat' = [stat EXCEPT ![Server] = Running]
    /\ ListenerMoves /\ UNCHANGED <<pc, countVars>>

\* The loop condition and listen, whose error leaves the loop and the block: the
\* status stays what it was and the socket open.
While ==
    /\ \/ stat[Server] = ShouldTerminate /\ Listener("while", "stop")
       \/ stat[Server] # ShouldTerminate /\ Listener("while", "check")
       \/ stat[Server] # ShouldTerminate /\ "listenFails" \in Allowed /\ Listener("while", "failed")
    /\ ListenerMoves /\ UNCHANGED <<stat, pc, countVars>>

Check ==
    /\ Listener("check", IF stat[Server] = ShouldTerminate THEN "stop"
                         ELSE IF stat[Server] = Suspend THEN "while" ELSE "accept")
    /\ ListenerMoves /\ UNCHANGED <<stat, pc, countVars>>

\* accept, then the test of the limit.  count is only raised where it is at the
\* limit already.  The socket of a connection over the limit is not closed.
Accept(c) ==
    /\ At(c, "backlog") /\ Listener("accept", "while")
    /\ \/ count >= maxGuest /\ Goto(c, "dropped") /\ count' = count + 1
       \/ count < maxGuest /\ Goto(c, "queued") /\ UNCHANGED count
    /\ ListenerMoves /\ UNCHANGED <<stat, lost>>

\* serverShouldConnect says no: the socket is closed.
Refuse(c) ==
    /\ "refuse" \in Allowed
    /\ At(c, "backlog") /\ Listener("accept", "while") /\ count < maxGuest
    /\ Goto(c, "refused")
    /\ ListenerMoves /\ UNCHANGED <<stat, countVars>>

\* accept returns -1, no address can be made of nothing, didReceiveError.
AcceptFails(c) ==
    /\ "acceptFails" \in Allowed
    /\ At(c, "backlog") /\ peer[c] = "rst" /\ Listener("accept", "while")
    /\ Goto(c, "refused")
    /\ ListenerMoves /\ UNCHANGED <<stat, countVars>>

\* Status idle, the listening socket closed, serverDidKill.
Stop ==
    /\ Listener("stop", "done")
    /\ stat' = [stat EXCEPT ![Server] = Idle]
    /\ ListenerMoves /\ UNCHANGED <<pc, countVars>>

ListenerStep == \/ DidStart \/ While \/ Check \/ Stop
                \/ \E c \in Conns : Accept(c) \/ Refuse(c) \/ AcceptFails(c)

-----------------------------------------------------------------------------
(* The block of one connection.                                            *)

WorkerMoves == UNCHANGED <<lpc, appVars>>
Holds(c)    == WorkerMoves /\ UNCHANGED <<reg, countVars, peer>>
Jump(c)     == Holds(c) /\ UNCHANGED <<stat, loopVars, inbox, late>>

WorkerStart(c) ==
    /\ Step(c, "queued", "top")
    /\ stat' = [stat EXCEPT ![c] = Running]
    /\ Holds(c) /\ UNCHANGED <<loopVars, inbox, late>>

\* The server's status is read once to compare it and once to copy it.
Top(c) ==
    /\ Step(c, "top", IF stat[Server] = Running THEN "switch" ELSE "copy")
    /\ Jump(c)

CopyStatus(c) ==
    /\ Step(c, "copy", "switch")
    /\ stat' = [stat EXCEPT ![c] = stat[Server]]
    /\ Holds(c) /\ UNCHANGED <<loopVars, inbox, late>>

Branch(status, noted) ==
    CASE status = Running  -> "recv"
      [] status = Resuming -> "resume"
      [] status = Suspend  -> IF noted THEN "srecv" ELSE "snote"
      [] OTHER             -> "knote"

Switch(c) ==
    /\ Step(c, "switch", Branch(stat[c], suspended[c]))
    /\ suspended' = [suspended EXCEPT ![c] = @ \/ stat[c] = Suspend]
    /\ Holds(c) /\ UNCHANGED <<stat, note, s, inbox, late>>

Resume(c) ==
    /\ Step(c, "resume", "rnote")
    /\ stat' = [stat EXCEPT ![c] = Running]
    /\ Holds(c) /\ UNCHANGED <<loopVars, inbox, late>>

\* Mutant: statusDidChange is told that the connection runs.
NoteLoadRunning(c) ==
    /\ \/ Step(c, "rnote", "rstore") \/ Step(c, "snote", "sstore") \/ Step(c, "knote", "kstore")
    /\ note' = [note EXCEPT ![c] = Running]
    /\ Holds(c) /\ UNCHANGED <<stat, s, suspended, inbox, late>>

\* self.statusDidChange(self.status): the status is read, then stored again.
NoteLoad(c) ==
    /\ \/ Step(c, "rnote", "rstore") \/ Step(c, "snote", "sstore") \/ Step(c, "knote", "kstore")
    /\ note' = [note EXCEPT ![c] = stat[c]]
    /\ Holds(c) /\ UNCHANGED <<stat, s, suspended, inbox, late>>

NoteStore(c) ==
    /\ \/ Step(c, "rstore", "while") \/ Step(c, "sstore", "srecv") \/ Step(c, "kstore", "while")
    /\ stat' = [stat EXCEPT ![c] = note[c]]
    /\ Holds(c) /\ UNCHANGED <<loopVars, inbox, late>>

Read(c)   == inbox[c] > 0 /\ inbox' = [inbox EXCEPT ![c] = @ - 1]
AtEof(c)  == inbox[c] = 0 /\ peer[c] = "fin" /\ UNCHANGED inbox
Broken(c) == peer[c] = "rst" /\ UNCHANGED inbox

\* A connection is quiet once the program's suspension of it, or of its server, has
\* taken effect, and until the program takes that back.
Quiet(c) == held \cap {c, Server} # {}

\* handleData: recv, then didReceiveData, or didReceiveError.
Recv(c) ==
    /\ At(c, "recv")
    /\ \/ /\ \/ Read(c) /\ Goto(c, "data")
             \/ AtEof(c) /\ Goto(c, "eof")
          /\ late' = [late EXCEPT ![c] = IF Quiet(c) THEN @ + 1 ELSE @]
          /\ UNCHANGED s
       \/ Broken(c) /\ Goto(c, "while") /\ s' = [s EXCEPT ![c] = 0] /\ UNCHANGED late
    /\ Holds(c) /\ UNCHANGED <<stat, note, suspended>>

\* The handler says whether to go on; of an empty read the length is 0 anyway.
HandlerReturns(c) ==
    /\ \/ Step(c, "data", "while") /\ \E n \in {0, 1} : s' = [s EXCEPT ![c] = n]
       \/ Step(c, "eof", "while") /\ s' = [s EXCEPT ![c] = 0]
    /\ known' = known \cup {c}
    /\ UNCHANGED <<lpc, asked, maxGuest, reg, countVars, peer, stat, note, suspended, inbox, late>>

\* Mutant: the suspended branch does not notice the end of the stream.
SuspendedRecvNoEof(c) ==
    /\ Step(c, "srecv", "again")
    /\ \/ (Read(c) \/ AtEof(c)) /\ UNCHANGED s
       \/ Broken(c) /\ s' = [s EXCEPT ![c] = 0]
    /\ Holds(c) /\ UNCHANGED <<stat, note, suspended, late>>

\* The suspended branch reads and drops; s keeps its value over a payload.
SuspendedRecv(c) ==
    /\ Step(c, "srecv", "again")
    /\ \/ Read(c) /\ UNCHANGED s
       \/ (AtEof(c) \/ Broken(c)) /\ s' = [s EXCEPT ![c] = 0]
    /\ Holds(c) /\ UNCHANGED <<stat, note, suspended, late>>

\* Mutant: the branch goes by the status its case was chosen for.
SuspendedTargetStale(status) == IF status = ShouldTerminate THEN "while" ELSE "recv"

SuspendedTarget(status) == IF status \in {Running, Resuming} THEN "recv" ELSE "while"

\* The inner switch, on the status as it is after the read.
Again(c) ==
    /\ Step(c, "again", SuspendedTarget(stat[c]))
    /\ s' = [s EXCEPT ![c] = IF stat[c] \in {ShouldTerminate, Idle} THEN 0 ELSE @]
    /\ Holds(c) /\ UNCHANGED <<stat, note, suspended, inbox, late>>

WhileS(c) == Step(c, "while", IF s[c] > 0 THEN "top" ELSE "close") /\ Jump(c)

\* The completion: close, objectDidDisconnect, count -= 1.
Close(c) == Step(c, "close", "leave") /\ Jump(c)

LeaveLoad(c) ==
    /\ Step(c, "leave", "decStore") /\ Count!Load(c)
    /\ WorkerMoves /\ UNCHANGED <<stat, loopVars, netVars, late>>

DecStore(c) ==
    /\ Step(c, "decStore", "closed") /\ Count!Store(c, -1)
    /\ WorkerMoves /\ UNCHANGED <<stat, loopVars, netVars, late>>

WorkerStep(c) ==
    \/ WorkerStart(c) \/ Top(c) \/ CopyStatus(c) \/ Switch(c) \/ Resume(c)
    \/ NoteLoad(c) \/ NoteStore(c) \/ Recv(c) \/ HandlerReturns(c)
    \/ SuspendedRecv(c) \/ Again(c) \/ WhileS(c) \/ Close(c) \/ LeaveLoad(c) \/ DecStore(c)

-----------------------------------------------------------------------------
(* What took effect.  `held' remembers it; no step of the code reads it.    *)

\* Nobody has anything in hand that would undo a suspension: the worker no status it
\* read before, to be stored by statusDidChange, no resume it has begun, and none of its
\* server's to copy; the accept loop not its first store.
Settled(o) ==
    /\ o \in asked /\ stat[o] = Suspend
    /\ o = Server => lpc \notin {"off", "start"}
    /\ o \in Conns => /\ pc[o] \notin {"resume", "copy"} /\ stat[Server] # Resuming
                      /\ pc[o] \in {"rstore", "sstore", "kstore"} => note[o] = Suspend

\* The server starts to run or is resumed; what it hands to its connections replaces
\* what the program told them.
Roused == stat'[Server] # stat[Server] /\ stat'[Server] \in {Running, Resuming}

\* A suspension that took effect holds until the program takes it back or rouses the
\* server, whatever is stored in the status word meanwhile.
Remember ==
    held' = {o \in asked' : Settled(o)' \/ (o \in held /\ (o = Server \/ ~Roused))}

Next == /\ Program \/ Peers \/ ListenerStep \/ \E c \in Conns : WorkerStep(c)
        /\ Remember

Spec == Init /\ [][Next]_vars

\* libdispatch runs every block it was given, on concurrent global queues.
FairSpec == /\ Spec
            /\ WF_vars(ListenerStep /\ Remember)
            /\ \A c \in Conns : WF_vars(WorkerStep(c) /\ Remember)

-----------------------------------------------------------------------------
(* Properties.                                                             *)

In(S) == Cardinality({c \in Conns : pc[c] \in S})

\* A server with room for a guest turns nobody away, however many it serves: count is
\* raised for those turned away only, and lost updates of it do not change that
\* (SXServer.swift:136, 137 and 156).
LimitNeverBites == maxGuest > 0 => count <= 0 /\ In({"dropped"}) = 0

Phase(c) == CASE pc[c] = "new"                      -> "none"
              [] pc[c] = "backlog"                  -> "pending"
              [] pc[c] \in {"refused", "dropped"}   -> "refused"
              [] pc[c] \in LoopPc \cup {"queued", "close"} -> "live"
              [] OTHER                              -> "down"

Life == INSTANCE ConnLife WITH
    phase    <- [c \in Conns |-> Phase(c)],
    handling <- [c \in Conns |-> pc[c] \in {"data", "eof"}],
    quiet    <- [c \in Conns |-> Quiet(c)],
    credit   <- [c \in Conns |-> 1 - late[c]]

\* The server keeps the promise of ConnLife to each connection: one handler call at a
\* time, and at most one more from when the program's suspension of it or of its server
\* has taken effect until the program resumes it (SXQueue.swift:134-187).  Of a suspension
\* stored while the worker has a resume or a status in hand (88, 165), which may be lost,
\* it says nothing.
ImplementsConnLife == Life!Spec

\* A connection whose peer has gone is closed, if the server runs and neither it
\* nor the connection is ended, or resumed for ever (SXQueue.swift:132-194).
DeadPeerCleared ==
    \A c \in Conns :
        <>[](stat[Server] = Running /\ stat[c] \in {Running, Suspend})
            => (pc[c] \in LoopPc /\ peer[c] # "open" ~> pc[c] = "closed")

\* A suspension the worker has met, or that was stored while the worker had no store
\* of its own ahead, stays until the program resumes the connection, as long as
\* the server runs (SXQueue.swift:87-89, 134-187).
SettledSuspensionSticks ==
    [][\A c \in Conns :
         /\ Settled(c) /\ c \in asked' /\ stat[Server] = Running /\ stat'[Server] = Running
         => Settled(c)']_vars
=============================================================================
