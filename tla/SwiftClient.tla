---------------------------- MODULE SwiftClient ----------------------------
(***************************************************************************)
(* The Swift port's SXStreamClient: made, bound to a queue (its owner),    *)
(* connected, served by a block of its own, closed.  A descriptor is a     *)
(* number of the process: `sockfd' keeps it when the socket is closed, and *)
(* the next socket may be given the same number.                           *)
(*                                                                         *)
(* pc of a client:                                                         *)
(*   new             not made                                              *)
(*   made            has a socket, start not called or failed              *)
(*   drop, gone      in close() before it was served; closed               *)
(*   connect, launch start: in connect; about to store RUNNING             *)
(*   top, copy       the head of the loop; owner.status read, to be copied *)
(*   switch, resume  the outer switch; RESUMMING read, RUNNING to be stored *)
(*   recv, data, eof handleData: in recv, in didReceiveData                *)
(*   srecv, again    the suspended branch: in recv, the inner switch       *)
(*   end, shut       close(), before and after owner = nil                 *)
(***************************************************************************)
EXTENDS Integers, FiniteSets, SXStatus

CONSTANTS Clients,
          MaxUnread,    \* bound: payloads a peer sends ahead of the block
          Bindable,     \* the clients the program may bind to the owner
          Startable,    \* those it starts; others take a descriptor and give it back
          Managed,      \* what the program suspends and resumes, the owner perhaps
          Resumes,      \* what the program stores to resume: RESUMMING, RUNNING
          Allowed       \* "terminate", "connectFails"

Owner == "owner"        \* the queue clients are bound to
Free  == "free"         \* the socket of a descriptor that is not open
Fds   == 1..Cardinality(Clients)

ASSUME SwiftClientAssumption ==
    /\ IsFiniteSet(Clients) /\ Owner \notin Clients /\ Free \notin Clients
    /\ Bindable \subseteq Clients /\ Startable \subseteq Clients
    /\ Managed \subseteq Clients \cup {Owner}
    /\ MaxUnread \in Nat /\ Resumes \subseteq {Resuming, Running}

VARIABLES pc,
          owner,         \* the owner's own loop: its place, `suspended', the status in hand
          stat,          \* status of the clients and of the owner
          owned,         \* clients whose owner is not nil
          sockfd, table, \* a client's field; whose socket each descriptor is
          s,             \* the local of start
          asked,         \* what the program has suspended and not resumed
          held,          \* history: what of it took effect
          inbox, peer,   \* unread payloads of a client's socket; its peer's end
          late           \* history: handler calls begun since a suspension took effect

fdVars  == <<sockfd, table>>
netVars == <<inbox, peer>>
vars == <<pc, owner, stat, owned, sockfd, table, s, asked, held, inbox, peer, late>>

LoopPc == {"top", "copy", "switch", "resume", "recv", "data", "eof", "srecv", "again", "end",
           "shut"}

\* Every variable has its type; ControlOK is the part that does not count calls.
ControlOK ==
    /\ pc \in [Clients -> {"new", "made", "drop", "gone", "connect", "launch", "closed"} \cup LoopPc]
    /\ stat \in [Clients \cup {Owner} -> Status]
    /\ owner \in [pc : {"loop", "resume", "note", "store"}, noted : BOOLEAN, note : Status]
    /\ owned \subseteq Clients
    /\ asked \subseteq Clients \cup {Owner} /\ held \subseteq asked
    /\ sockfd \in [Clients -> Fds] /\ table \in [Fds -> Clients \cup {Free}]

TypeOK ==
    /\ ControlOK
    /\ s \in [Clients -> {0, 1}]
    /\ inbox \in [Clients -> 0..MaxUnread]
    /\ peer \in [Clients -> {"open", "fin", "rst"}]
    /\ late \in [Clients -> {0, 1}]

\* The owner has accepted its connection and runs before a client is bound to it.
Init ==
    /\ pc = [c \in Clients |-> "new"]
    /\ stat = [o \in Clients \cup {Owner} |-> IF o = Owner THEN Running ELSE Idle]
    /\ owner = [pc |-> "loop", noted |-> FALSE, note |-> Running]
    /\ owned = {} /\ asked = {} /\ held = {}
    /\ sockfd = [c \in Clients |-> 1] /\ table = [f \in Fds |-> Free]
    /\ s = [c \in Clients |-> 0]
    /\ inbox = [c \in Clients |-> 0] /\ peer = [c \in Clients |-> "open"]
    /\ late = [c \in Clients |-> 0]

At(c, l)      == pc[c] = l
Goto(c, l)    == pc' = [pc EXCEPT ![c] = l]
Step(c, l, m) == At(c, l) /\ Goto(c, m)

Store(o, st) == stat' = [stat EXCEPT ![o] = st]

-----------------------------------------------------------------------------
(* The program.                                                            *)

\* init: the address, then socket, which takes the lowest free number.  An init that
\* throws leaves nothing behind.
Make(c) ==
    /\ Step(c, "new", "made")
    /\ \E fd \in Fds :
         /\ table[fd] = Free /\ \A lower \in 1..(fd - 1) : table[lower] # Free
         /\ sockfd' = [sockfd EXCEPT ![c] = fd]
         /\ table' = [table EXCEPT ![fd] = c]
    /\ UNCHANGED <<stat, owned, s, asked, netVars>>

Bind(c) ==
    /\ c \in Bindable /\ At(c, "made")
    /\ owned' = owned \cup {c}
    /\ UNCHANGED <<pc, stat, fdVars, s, asked, netVars>>

Start(c) ==
    /\ c \in Startable /\ Step(c, "made", "connect")
    /\ UNCHANGED <<stat, owned, fdVars, s, asked, netVars>>

\* The two halves of close(): owner = nil, and Darwin.close of the number, whoever
\* has it by now.
Unown(c) ==
    /\ owned' = owned \ {c}
    /\ UNCHANGED <<stat, fdVars, s, asked, netVars>>

CloseFd(c) ==
    /\ table' = [table EXCEPT ![sockfd[c]] = Free]
    /\ inbox' = [d \in Clients |-> IF table[sockfd[c]] = d THEN 0 ELSE inbox[d]]
    /\ UNCHANGED <<stat, sockfd, s, asked, peer>>

\* The program closes a client it gives up before it is served.
GiveUp(c) == Step(c, "made", "drop") /\ Unown(c)

\* The program closes a client that is served, and the block goes on.
CloseLive(c) ==
    /\ pc[c] \in LoopPc /\ table[sockfd[c]] = c
    /\ owned' = owned \ {c} /\ CloseFd(c) /\ UNCHANGED pc

Usable(o) == IF o = Owner THEN TRUE ELSE pc[o] \in LoopPc \cup {"made", "connect", "launch"}

SuspendObject(o) ==
    /\ Usable(o) /\ Store(o, Suspend) /\ asked' = asked \cup {o}
    /\ UNCHANGED <<pc, owned, fdVars, s, netVars>>

ResumeObject(o) ==
    /\ Usable(o) /\ o \in asked
    /\ \E st \in Resumes : Store(o, st)
    /\ asked' = asked \ {o}
    /\ UNCHANGED <<pc, owned, fdVars, s, netVars>>

Program ==
    \/ \E c \in Clients : Make(c) \/ Bind(c) \/ Start(c) \/ GiveUp(c)
    \/ \E o \in Managed : SuspendObject(o) \/ ResumeObject(o)

-----------------------------------------------------------------------------
(* The owner's own loop, SXQueue.start: what it does to its status.        *)

OwnerAt(l)    == owner.pc = l
OwnerGoto(l)  == owner' = [owner EXCEPT !.pc = l]
OwnerMoves    == UNCHANGED <<pc, owned, fdVars, s, asked, netVars>>

\* The switch.  The branch of a suspended owner tells of it once.
OwnerSwitch ==
    /\ OwnerAt("loop")
    /\ \/ stat[Owner] = Resuming /\ OwnerGoto("resume")
       \/ /\ stat[Owner] = Suspend /\ ~owner.noted
          /\ owner' = [owner EXCEPT !.pc = "note", !.noted = TRUE]
       \/ stat[Owner] \in {ShouldTerminate, Idle} /\ OwnerGoto("note")
    /\ OwnerMoves /\ UNCHANGED stat

OwnerResume == OwnerAt("resume") /\ OwnerGoto("note") /\ Store(Owner, Running) /\ OwnerMoves

\* self.statusDidChange(self.status): the status is read, then stored again.  What note is
\* otherwise does not matter.
OwnerNoteLoad ==
    /\ OwnerAt("note") /\ owner' = [owner EXCEPT !.pc = "store", !.note = stat[Owner]]
    /\ OwnerMoves /\ UNCHANGED stat

OwnerNoteStore ==
    /\ OwnerAt("store") /\ Store(Owner, owner.note)
    /\ owner' = [owner EXCEPT !.pc = "loop", !.note = Running]
    /\ OwnerMoves

\* The owner's server ends: at its head the loop copies the status, and that of a
\* server that has ended.
OwnerEnds ==
    /\ "terminate" \in Allowed /\ OwnerAt("loop")
    /\ \E st \in {ShouldTerminate, Idle} : stat[Owner] # st /\ Store(Owner, st)
    /\ OwnerMoves /\ UNCHANGED owner

OwnerStep == OwnerSwitch \/ OwnerResume \/ OwnerNoteLoad \/ OwnerNoteStore \/ OwnerEnds

-----------------------------------------------------------------------------
(* The peers.                                                              *)

Connected(c) == pc[c] \in LoopPc \cup {"launch"} /\ table[sockfd[c]] = c

Send(c) ==
    /\ Connected(c) /\ peer[c] = "open" /\ inbox[c] < MaxUnread
    /\ inbox' = [inbox EXCEPT ![c] = @ + 1]
    /\ UNCHANGED <<pc, stat, owned, fdVars, s, asked, peer>>

Hangup(c) ==
    /\ Connected(c) /\ peer[c] = "open"
    /\ \/ peer' = [peer EXCEPT ![c] = "fin"] /\ UNCHANGED inbox
       \/ peer' = [peer EXCEPT ![c] = "rst"] /\ inbox' = [inbox EXCEPT ![c] = 0]
    /\ UNCHANGED <<pc, stat, owned, fdVars, s, asked>>

Peers == \E c \in Clients : Send(c) \/ Hangup(c)

-----------------------------------------------------------------------------
(* start, and the block it dispatches.                                     *)

\* The loop's condition.
Turn(c, n) == s' = [s EXCEPT ![c] = n] /\ Goto(c, IF n > 0 THEN "top" ELSE "end")

Holds == UNCHANGED <<owned, fdVars, asked, peer>>
Jump  == Holds /\ UNCHANGED <<stat, s, inbox>>

\* connect, of whatever socket has the number.
Connect(c) == table[sockfd[c]] # Free /\ Step(c, "connect", "launch") /\ Jump

\* Mutant: the socket is closed as well, and the field keeps its number.
ConnectFailsCloses(c) ==
    /\ "connectFails" \in Allowed
    /\ Step(c, "connect", "made") /\ CloseFd(c) /\ UNCHANGED owned

\* didReceiveError; the socket stays, and start may be called again.
ConnectFails(c) == "connectFails" \in Allowed /\ Step(c, "connect", "made") /\ Jump

\* Mutant: the block stores the status, at the head of its loop.
LaunchInLoop(c) ==
    /\ Step(c, "launch", "top") \/ Step(c, "top", "switch")
    /\ Store(c, Running)
    /\ Holds /\ UNCHANGED <<s, inbox>>

\* After connect: the initial payload, the status, dispatch_async.  A suspension that
\* was stored while start was in connect is lost.
Launch(c) ==
    /\ Step(c, "launch", "top") /\ Store(c, Running)
    /\ Holds /\ UNCHANGED <<s, inbox>>

\* The owner's status is read once to compare it and once to copy it.
Top(c) ==
    /\ Step(c, "top", IF c \in owned /\ stat[Owner] # Running THEN "copy" ELSE "switch")
    /\ Jump

CopyStatus(c) ==
    /\ Step(c, "copy", "switch")
    /\ Store(c, stat[Owner])
    /\ Holds /\ UNCHANGED <<s, inbox>>

\* The outer switch; statusDidChange only tells the delegate.  An ended client
\* comes round again while s is positive.
Switch(c) ==
    /\ At(c, "switch")
    /\ \/ stat[c] = Running /\ Goto(c, "recv") /\ UNCHANGED s
       \/ stat[c] = Resuming /\ Goto(c, "resume") /\ UNCHANGED s
       \/ stat[c] = Suspend /\ Goto(c, "srecv") /\ UNCHANGED s
       \/ stat[c] \in {ShouldTerminate, Idle} /\ Turn(c, s[c])
    /\ Holds /\ UNCHANGED <<stat, inbox>>

\* RUNNING over RESUMMING, or over what the program has stored since.
Resume(c) ==
    /\ At(c, "resume") /\ Turn(c, s[c])
    /\ Store(c, Running)
    /\ Holds /\ UNCHANGED inbox

\* What recv can find: the socket that has the number, or an error when it is not
\* the client's own any more.
Got(c, d)  == table[sockfd[c]] = d /\ inbox[d] > 0 /\ inbox' = [inbox EXCEPT ![d] = @ - 1]
AtEof(c)   == /\ \E d \in Clients : table[sockfd[c]] = d /\ inbox[d] = 0 /\ peer[d] = "fin"
              /\ UNCHANGED inbox
Broken(c)  == (table[sockfd[c]] # c \/ peer[c] = "rst") /\ UNCHANGED inbox
Payload(c) == \E d \in Clients : Got(c, d)

\* handleData: recv, then didReceiveData or didReceiveError.
Recv(c) ==
    /\ At(c, "recv")
    /\ \/ Payload(c) /\ Goto(c, "data") /\ UNCHANGED s
       \/ AtEof(c) /\ Goto(c, "eof") /\ UNCHANGED s
       \/ Broken(c) /\ Turn(c, 0)
    /\ Holds /\ UNCHANGED stat

\* The handler says whether to go on; the length of an empty read is 0 anyway.
HandlerReturns(c) ==
    /\ \/ At(c, "data") /\ \E n \in {0, 1} : Turn(c, n)
       \/ At(c, "eof") /\ Turn(c, 0)
    /\ Holds /\ UNCHANGED <<stat, inbox>>

\* The suspended branch drops what it reads; s keeps its value over a payload.
SuspendedRecv(c) ==
    /\ Step(c, "srecv", "again")
    /\ \/ Payload(c) /\ UNCHANGED s
       \/ (AtEof(c) \/ Broken(c)) /\ s' = [s EXCEPT ![c] = 0]
    /\ Holds /\ UNCHANGED stat

\* Mutant: the inner switch goes by the status its case was chosen for.
AgainStale(c) ==
    /\ Step(c, "again", "recv")
    /\ Holds /\ UNCHANGED <<stat, s, inbox>>

\* The inner switch, on the status as it is after the read.
Again(c) ==
    /\ At(c, "again")
    /\ \/ stat[c] \in {Running, Resuming} /\ Goto(c, "recv") /\ UNCHANGED s
       \/ stat[c] = Suspend /\ Turn(c, s[c])
       \/ stat[c] \in {ShouldTerminate, Idle} /\ Turn(c, 0)
    /\ Holds /\ UNCHANGED <<stat, inbox>>

End(c) == Step(c, "end", "shut") /\ Unown(c)

Close(c) ==
    /\ Step(c, "shut", "closed") \/ Step(c, "drop", "gone")
    /\ CloseFd(c) /\ UNCHANGED owned

ClientStep(c) ==
    \/ Connect(c) \/ ConnectFails(c) \/ Launch(c) \/ Top(c) \/ CopyStatus(c) \/ Switch(c)
    \/ Resume(c) \/ Recv(c) \/ HandlerReturns(c) \/ SuspendedRecv(c) \/ Again(c)
    \/ End(c) \/ Close(c)

-----------------------------------------------------------------------------
(* What took effect.  `held' and `late' remember it; no step of the code   *)
(* reads them.                                                             *)

\* Nobody has anything in hand that would undo a suspension: the block no resume it has
\* begun and no status of its owner's to copy, the owner no status it read before.
Settled(o) ==
    /\ o \in asked /\ stat[o] = Suspend
    /\ IF o = Owner THEN /\ owner.pc # "resume"
                         /\ owner.pc = "store" => owner.note = Suspend
                    ELSE /\ pc[o] \in LoopPc \ {"copy", "resume"}
                         /\ o \in owned => stat[Owner] # Resuming

\* The owner comes to run or to resume; what it hands to its clients replaces what the
\* program told them.
Roused(c) == c \in owned /\ stat'[Owner] # stat[Owner] /\ stat'[Owner] \in {Running, Resuming}

\* A client is quiet once the program's suspension of it, or of its owner, has taken
\* effect, and until the program takes that back or the owner is roused.
Quiet(c) == c \in held \/ (c \in owned /\ Owner \in held)

Begins(c) == pc[c] = "recv" /\ pc'[c] \in {"data", "eof"}
Woken(c)  == \/ c \in asked \ asked' \/ (c \in owned /\ Owner \in asked \ asked')
             \/ ~Quiet(c)'

Remember ==
    /\ held' = {o \in asked' : Settled(o)' \/ (o \in held /\ (o = Owner \/ ~Roused(o)))}
    /\ late' = [c \in Clients |-> IF Woken(c) THEN 0
                                  ELSE IF Quiet(c) /\ Begins(c) THEN late[c] + 1 ELSE late[c]]

Next ==
    /\ \/ (Program \/ Peers \/ \E c \in Clients : ClientStep(c)) /\ UNCHANGED owner
       \/ OwnerStep
    /\ Remember

Spec == Init /\ [][Next]_vars

\* The system whose program also closes clients that are served.
ClosingSpec ==
    Init /\ [][Next \/ ((\E c \in Clients : CloseLive(c)) /\ UNCHANGED owner /\ Remember)]_vars

-----------------------------------------------------------------------------
(* Properties.                                                             *)

\* The block of a client reads and closes no socket but its own, whatever sockets
\* are made, fail to connect and are closed meanwhile (SXClient.swift:148, 194).
OwnDescriptor ==
    \A c \in Clients : pc[c] \in LoopPc => table[sockfd[c]] \in {c, Free}

\* A suspension of a served client that nothing owns, once it took effect, stays in its
\* status until the program resumes the client: no step of its block stores RUNNING over it
\* any more (137, 142, 162).
SuspensionHolds ==
    \A c \in held \ {Owner} : pc[c] \in LoopPc \ {"shut"} /\ c \notin owned => stat[c] = Suspend

Phase(c) == CASE pc[c] = "new"                            -> "none"
              [] pc[c] \in {"made", "connect", "drop"}    -> "pending"
              [] pc[c] = "gone"                           -> "refused"
              [] pc[c] \in LoopPc \cup {"launch"}          -> "live"
              [] pc[c] = "closed"                         -> "down"

Life == INSTANCE ConnLife WITH
    Conns    <- Clients,
    phase    <- [c \in Clients |-> Phase(c)],
    handling <- [c \in Clients |-> pc[c] \in {"data", "eof"}],
    quiet    <- [c \in Clients |-> Quiet(c)],
    credit   <- [c \in Clients |-> 1 - late[c]]

\* The promise of ConnLife: one handler call at a time, and at most one more from when a
\* suspension of the client or of its owner has taken effect until the program takes it
\* back or the owner is roused, whatever the status word holds meanwhile (139-184).  Of
\* one stored while start is in connect or the block has a resume or a copy in hand (137,
\* 142, 162), which may be lost, it says nothing.
ImplementsConnLife == Life!Spec

\* What the proofs add to OwnDescriptor and SuspensionHolds: until it is closed the socket
\* of a client has its number (SXClient.swift:82-194), and a status is copied for the sake
\* of an owner (140).
FdsHeld == \A c \in Clients :
    pc[c] \in {"made", "drop", "connect", "launch"} \cup LoopPc => table[sockfd[c]] = c

CopiesOwned == \A c \in Clients : pc[c] = "copy" => c \in owned
=============================================================================
