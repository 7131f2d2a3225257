------------------------------- MODULE HttpProxy -------------------------------
(***************************************************************************)
(* The HTTP proxy of src/Examples/HTTP-proxy: for every guest the server   *)
(* runs a worker, whose data handler makes one client for its queue, and   *)
(* the client's block sends what the origin answers back to the guest.     *)
(* queue->udata and client->udata join the two; nothing takes the pointer  *)
(* away when one side ends and frees its half.                             *)
(*                                                                         *)
(* The accept loop, its counts and the status words are ProxyServer's; the *)
(* program neither suspends nor ends its server.                           *)
(*                                                                         *)
(* pc of a guest's worker:                                                 *)
(*   new, queued           not accepted; block dispatched                  *)
(*   recv, data, eof       in recv; in the handler, with bytes or without  *)
(*   connectIp, connectName  in SXStartClient                              *)
(*   send                  about to send the request on                    *)
(*   close, free, closed   after the exit label                            *)
(*   wild                  has touched freed memory                        *)
(* cpc of its client:                                                      *)
(*   none, made            queue->udata is NULL; not started               *)
(*   idle                  connect failed: no block was dispatched         *)
(*   queued, recv, end     the block; after its loop                       *)
(*   deliver, error        in cl, with bytes and with recv's -1 as length  *)
(*   freed, wild                                                           *)
(***************************************************************************)
EXTENDS FiniteSets, ProxyRequest, SwiftData

CONSTANTS Conns,        \* the guests
          Nobody,       \* owns a descriptor that is closed
          Requests,     \* the texts guests send
          Addresses,    \* the host names that are IPv4 addresses
          MaxUnread     \* bound: payloads a guest or an origin is ahead

ASSUME HttpProxyAssumption ==
    /\ IsFiniteSet(Conns) /\ Nobody \notin {"guest", "origin"} \X Conns
    /\ MaxUnread \in Nat

Fds == 1..2 * Cardinality(Conns)

VARIABLES pc, fd,         \* each worker's position and its guest's descriptor
          inbox, peer,    \* unread requests; the guest's end
          queues,         \* the queues that are allocated
          cpc, cfd,       \* each client's position and its descriptor
          sock,           \* client->socket: none, open, unconnected, released
          unread, origin, \* unread answers; the origin's end
          table,          \* whose each descriptor is
          stray,          \* has a second close hit somebody's descriptor?
          crossed,        \* the clients whose answers reached another's descriptor
          crashed         \* the process has been ended by a signal

guestVars  == <<pc, fd, inbox, peer, queues>>
clientVars == <<cpc, cfd, sock>>
originVars == <<unread, origin>>
vars == <<guestVars, clientVars, originVars, table, stray, crossed, crashed>>

HandlerPc == {"data", "eof", "connectIp", "connectName", "send"}
ServingPc == {"queued", "recv", "close"} \cup HandlerPc
BlockPc   == {"queued", "recv", "deliver", "error", "end"}

\* Every variable has its type.
TypeOK ==
    /\ pc \in [Conns -> {"new", "free", "closed", "wild"} \cup ServingPc]
    /\ cpc \in [Conns -> {"none", "made", "idle", "freed", "wild"} \cup BlockPc]
    /\ fd \in [Conns -> Fds] /\ cfd \in [Conns -> Fds]
    /\ inbox \in [Conns -> 0..MaxUnread] /\ unread \in [Conns -> 0..MaxUnread]
    /\ peer \in [Conns -> {"open", "fin", "rst"}]
    /\ origin \in [Conns -> {"none", "open", "fin", "rst"}]
    /\ sock \in [Conns -> {"none", "open", "unconnected", "released"}]
    /\ queues \subseteq Conns /\ crossed \subseteq Conns
    /\ table \in [Fds -> {Nobody} \cup ({"guest", "origin"} \X Conns)]
    /\ stray \in BOOLEAN /\ crashed \in BOOLEAN

Init ==
    /\ pc = [c \in Conns |-> "new"] /\ cpc = [c \in Conns |-> "none"]
    /\ fd = [c \in Conns |-> 1] /\ cfd = [c \in Conns |-> 1]
    /\ inbox = [c \in Conns |-> 0] /\ unread = [c \in Conns |-> 0]
    /\ peer = [c \in Conns |-> "open"] /\ origin = [c \in Conns |-> "none"]
    /\ sock = [c \in Conns |-> "none"]
    /\ queues = {} /\ crossed = {}
    /\ table = [n \in Fds |-> Nobody]
    /\ stray = FALSE /\ crashed = FALSE

Goto(c, l)    == pc' = [pc EXCEPT ![c] = l]
Step(c, l, m) == pc[c] = l /\ Goto(c, m)
CGoto(c, l)   == cpc' = [cpc EXCEPT ![c] = l]

\* accept and socket hand out the lowest descriptor that is free.
Lowest(n) == table[n] = Nobody /\ \A m \in Fds : table[m] = Nobody => n <= m

\* What a send on a connection whose other end is gone may do to the process: the
\* sockets of this copy of the library do not set SO_NOSIGPIPE.
MayCrash(gone) == crashed' \in {FALSE, gone}

-----------------------------------------------------------------------------
(* Guests and origins.                                                     *)

GuestSends(c) ==
    /\ pc[c] \in ServingPc \ {"queued"} /\ peer[c] = "open" /\ inbox[c] < MaxUnread
    /\ inbox' = [inbox EXCEPT ![c] = @ + 1]
    /\ UNCHANGED <<pc, fd, peer, queues, clientVars, originVars, table, stray, crossed, crashed>>

GuestLeaves(c) ==
    /\ pc[c] \in ServingPc /\ peer[c] = "open"
    /\ \/ peer' = [peer EXCEPT ![c] = "fin"] /\ UNCHANGED inbox
       \/ peer' = [peer EXCEPT ![c] = "rst"] /\ inbox' = [inbox EXCEPT ![c] = 0]
    /\ UNCHANGED <<pc, fd, queues, clientVars, originVars, table, stray, crossed, crashed>>

OriginSends(c) ==
    /\ origin[c] = "open" /\ unread[c] < MaxUnread
    /\ unread' = [unread EXCEPT ![c] = @ + 1]
    /\ UNCHANGED <<guestVars, clientVars, origin, table, stray, crossed, crashed>>

OriginLeaves(c) ==
    /\ origin[c] = "open"
    /\ \/ origin' = [origin EXCEPT ![c] = "fin"] /\ UNCHANGED unread
       \/ origin' = [origin EXCEPT ![c] = "rst"] /\ unread' = [unread EXCEPT ![c] = 0]
    /\ UNCHANGED <<guestVars, clientVars, table, stray, crossed, crashed>>

Net == \E c \in Conns : GuestSends(c) \/ GuestLeaves(c) \/ OriginSends(c) \/ OriginLeaves(c)

-----------------------------------------------------------------------------
(* The worker of a guest: SXServerStart's block and main.c's data handler. *)

\* The frame of a step that only moves the worker on.
WorkerMoves == UNCHANGED <<fd, peer, originVars, stray>>

Accept(c) ==
    /\ Step(c, "new", "queued")
    /\ \E n \in Fds : /\ Lowest(n)
                      /\ fd' = [fd EXCEPT ![c] = n]
                      /\ table' = [table EXCEPT ![n] = <<"guest", c>>]
    /\ UNCHANGED <<inbox, peer, queues, clientVars, originVars, stray, crossed, crashed>>

\* SXCreateQueue, status running.
Start(c) ==
    /\ Step(c, "queued", "recv")
    /\ queues' = queues \cup {c}
    /\ WorkerMoves /\ UNCHANGED <<inbox, clientVars, table, crossed, crashed>>

Own(c) == table[fd[c]] = <<"guest", c>>

\* A descriptor that a stray close took away fails, or reads somebody else's bytes.
Recv(c) ==
    /\ \/ /\ Own(c) /\ inbox[c] > 0 /\ Step(c, "recv", "data")
          /\ inbox' = [inbox EXCEPT ![c] = @ - 1]
       \/ Own(c) /\ inbox[c] = 0 /\ peer[c] = "fin" /\ Step(c, "recv", "eof") /\ UNCHANGED inbox
       \/ Own(c) /\ peer[c] = "rst" /\ Step(c, "recv", "close") /\ UNCHANGED inbox
       \/ ~Own(c) /\ (Step(c, "recv", "close") \/ Step(c, "recv", "data")) /\ UNCHANGED inbox
    /\ WorkerMoves /\ UNCHANGED <<queues, clientVars, table, crossed, crashed>>

\* `if (length == 0) return 0' ends the loop.
Eof(c) ==
    /\ Step(c, "eof", "close")
    /\ WorkerMoves /\ UNCHANGED <<inbox, queues, clientVars, table, crossed, crashed>>

\* Its name says the opposite of what inet_pton answers.
requestIsHostname(domain) == domain \in Addresses

\* What parseRequest gets through, and the host names it finds.
Survivable == {text \in Requests : parseRequestDefined(text)}
Domains    == {parseRequest(text).domain : text \in Survivable}

\* parseRequest; the first request of a queue makes its client, by address or by
\* name, and ties the two together.
Parse(c) ==
    /\ pc[c] = "data"
    /\ \/ Survivable # Requests /\ crashed' = TRUE /\ UNCHANGED <<pc, cpc>>
       \/ /\ Survivable # {} /\ cpc[c] # "none"
          /\ Goto(c, "send") /\ UNCHANGED <<cpc, crashed>>
       \/ /\ cpc[c] = "none"
          /\ \E domain \in Domains :
                Goto(c, IF requestIsHostname(domain) THEN "connectIp" ELSE "connectName")
          /\ CGoto(c, "made") /\ UNCHANGED crashed
    /\ WorkerMoves /\ UNCHANGED <<inbox, queues, cfd, sock, table, crossed>>

\* SXCreateClientSocket and SXSocketConnect.
Opens(c, s) ==
    \E n \in Fds : /\ Lowest(n)
                   /\ cfd' = [cfd EXCEPT ![c] = n]
                   /\ table' = [table EXCEPT ![n] = <<"origin", c>>]
                   /\ sock' = [sock EXCEPT ![c] = s]

Connected(c) == /\ Opens(c, "open") /\ CGoto(c, "queued")
                /\ origin' = [origin EXCEPT ![c] = "open"]

\* SXStartClient_ip: a failed connect returns with the socket in place.
StartClientIp(c) ==
    /\ Step(c, "connectIp", "send")
    /\ \/ Connected(c)
       \/ Opens(c, "unconnected") /\ CGoto(c, "idle") /\ UNCHANGED origin
    /\ UNCHANGED <<fd, inbox, peer, queues, unread, stray, crossed, crashed>>

\* SXStartClient_h tries the answers in turn and releases the socket of each that
\* fails; the block is dispatched all the same.  Without an answer the list is
\* walked uninitialised.
StartClientName(c) ==
    /\ \/ Step(c, "connectName", "send") /\ Connected(c) /\ UNCHANGED crashed
       \/ /\ Step(c, "connectName", "send") /\ CGoto(c, "queued")
          /\ sock' = [sock EXCEPT ![c] = "released"]
          /\ UNCHANGED <<cfd, origin, table, crashed>>
       \/ /\ pc[c] = "connectName" /\ crashed' = TRUE
          /\ UNCHANGED <<pc, clientVars, origin, table>>
    /\ UNCHANGED <<fd, inbox, peer, queues, unread, stray, crossed>>

\* `client->socket != NULL' holds from the first start on, whatever became of it.
Send(c) ==
    /\ \/ /\ cpc[c] = "freed" \/ sock[c] = "released"
          /\ Step(c, "send", "wild") /\ UNCHANGED <<crossed, crashed>>
       \/ /\ cpc[c] # "freed" /\ sock[c] # "released"
          /\ Step(c, "send", "recv")
          /\ MayCrash(origin[c] # "open")
          /\ crossed' = IF table[cfd[c]] \in {Nobody, <<"origin", c>>}
                        THEN crossed ELSE crossed \cup {c}
    /\ WorkerMoves /\ UNCHANGED <<inbox, queues, clientVars, table>>

\* Mutant: the block ends without close.
CloseNothing(c) ==
    /\ Step(c, "close", "free")
    /\ WorkerMoves /\ UNCHANGED <<inbox, queues, clientVars, table, crossed, crashed>>

Close(c) ==
    /\ Step(c, "close", "free")
    /\ table' = [table EXCEPT ![fd[c]] = Nobody]
    /\ WorkerMoves /\ UNCHANGED <<inbox, queues, clientVars, crossed, crashed>>

\* Mutant: the queue's count does not reach 0.
FreeQueueKept(c) ==
    /\ Step(c, "free", "closed")
    /\ WorkerMoves /\ UNCHANGED <<inbox, queues, clientVars, table, crossed, crashed>>

\* SXReleaseQueue frees the queue and releases &sock, whose count was never set; if
\* it happened to be 1 the descriptor is closed once more and a pointer into the block
\* is given to free.
FreeQueue(c) ==
    /\ Step(c, "free", "closed")
    /\ queues' = queues \ {c}
    /\ \/ UNCHANGED <<table, stray, crashed>>
       \/ /\ table' = [table EXCEPT ![fd[c]] = Nobody]
          /\ stray' = (stray \/ table[fd[c]] # Nobody)
          /\ MayCrash(TRUE)
    /\ UNCHANGED <<fd, inbox, peer, clientVars, originVars, crossed>>

WorkerStep(c) ==
    ~crashed /\ (\/ Start(c) \/ Recv(c) \/ Eof(c) \/ Parse(c)
                 \/ StartClientIp(c) \/ StartClientName(c) \/ Send(c)
                 \/ Close(c) \/ FreeQueue(c))

-----------------------------------------------------------------------------
(* The block of a client.                                                  *)

CStep(c, l, m) == cpc[c] = l /\ CGoto(c, m)

\* The frame of a step of the client.
ClientMoves == UNCHANGED <<guestVars, cfd>>

ClientStarts(c) ==
    /\ CStep(c, "queued", "recv")
    /\ ClientMoves /\ UNCHANGED <<sock, originVars, table, stray, crossed, crashed>>

COwn(c) == table[cfd[c]] = <<"origin", c>>

\* Mutant: nothing to read ends the loop.
ClientRecvUnready(c) ==
    /\ sock[c] = "open" /\ unread[c] = 0 /\ CStep(c, "recv", "end")
    /\ ClientMoves /\ UNCHANGED <<sock, originVars, table, stray, crossed, crashed>>

\* `while ((s = recv(...)) > 0)', s unsigned: an error, reported once, is a length.
ClientRecv(c) ==
    /\ \/ sock[c] = "released" /\ CStep(c, "recv", "wild") /\ UNCHANGED originVars
       \/ /\ sock[c] = "open" /\ COwn(c) /\ unread[c] > 0
          /\ CStep(c, "recv", "deliver")
          /\ unread' = [unread EXCEPT ![c] = @ - 1] /\ UNCHANGED origin
       \/ /\ sock[c] = "open" /\ COwn(c) /\ unread[c] = 0 /\ origin[c] = "fin"
          /\ CStep(c, "recv", "end") /\ UNCHANGED originVars
       \/ /\ sock[c] = "open" /\ COwn(c) /\ origin[c] = "rst"
          /\ CStep(c, "recv", "error")
          /\ origin' = [origin EXCEPT ![c] = "fin"] /\ UNCHANGED unread
       \/ /\ sock[c] = "open" /\ ~COwn(c)
          /\ (CStep(c, "recv", "error") \/ CStep(c, "recv", "deliver"))
          /\ UNCHANGED originVars
    /\ ClientMoves /\ UNCHANGED <<sock, table, stray, crossed, crashed>>

\* cl: the answer goes to whatever the queue's descriptor is by now.
Deliver(c) ==
    /\ \/ c \notin queues /\ CStep(c, "deliver", "wild") /\ UNCHANGED <<crossed, crashed>>
       \/ /\ c \in queues /\ CStep(c, "deliver", "recv")
          /\ MayCrash(Own(c) /\ peer[c] # "open")
          /\ crossed' = IF table[fd[c]] \in {Nobody, <<"guest", c>>}
                        THEN crossed ELSE crossed \cup {c}
    /\ ClientMoves /\ UNCHANGED <<sock, originVars, table, stray>>

\* A send of SIZE_MAX bytes fails.
DeliverError(c) ==
    /\ CStep(c, "error", IF c \in queues THEN "recv" ELSE "wild")
    /\ ClientMoves /\ UNCHANGED <<sock, originVars, table, stray, crossed, crashed>>

\* disconnect_block, SXReleaseClient: the socket is closed, the client freed.
ClientEnds(c) ==
    /\ CStep(c, "end", "freed")
    /\ table' = [table EXCEPT ![cfd[c]] = Nobody]
    /\ stray' = (stray \/ ~COwn(c))
    /\ sock' = [sock EXCEPT ![c] = "none"]
    /\ ClientMoves /\ UNCHANGED <<originVars, crossed, crashed>>

ClientStep(c) == ~crashed /\ (\/ ClientStarts(c) \/ ClientRecv(c) \/ Deliver(c)
                              \/ DeliverError(c) \/ ClientEnds(c))

-----------------------------------------------------------------------------

Next == \/ ~crashed /\ (Net \/ \E c \in Conns : Accept(c))
        \/ \E c \in Conns : WorkerStep(c) \/ ClientStep(c)

Spec == Init /\ [][Next]_vars

-----------------------------------------------------------------------------
(* Properties.                                                             *)

\* Unless a release of the uninitialised socket has closed a number that was somebody
\* else's by then, every descriptor in use belongs to exactly the worker or client that
\* uses it, and none is in use that nobody will close but those of clients that
\* failed to connect (SXServer.c:467-470, SXClient.c:66-72, 121-128, 187-192).
DescriptorsOwned ==
    ~stray => \A n \in Fds, c \in Conns :
        /\ table[n] = <<"guest", c>> <=> pc[c] \in ServingPc \cup {"wild"} /\ fd[c] = n
        /\ table[n] = <<"origin", c>> <=> sock[c] \in {"open", "unconnected"} /\ cfd[c] = n

\* Barring that, neither half of the bridge touches freed memory while guest and origin
\* are both connected, and an answer or a request reaches another connection's socket
\* only between the close of the guest's descriptor and the free of its queue: as long
\* as a guest is served what passes the bridge stays on it (main.c:104-114, 188-189;
\* SXServer.c:467-470, SXClient.c:145).
BridgeSafe ==
    ~stray =>
        /\ \A c \in Conns : pc[c] = "wild" \/ cpc[c] = "wild"
                              => peer[c] # "open" \/ origin[c] # "open"
        /\ \A c \in crossed : pc[c] \in {"free", "closed"}

\* When both ends have hung up and neither block can take another step, both halves
\* of the bridge have been freed, in whatever order the two blocks noticed, unless one
\* touched the other's freed half, the process was ended, or a stray close took a
\* descriptor away (SXServer.c:464-471, SXClient.c:135-145).
NoHalfLeft ==
    \A c \in Conns :
        /\ peer[c] # "open" /\ origin[c] \in {"fin", "rst"}
        /\ ~stray /\ ~crashed /\ "wild" \notin {pc[c], cpc[c]}
        /\ ~ENABLED (WorkerStep(c) \/ ClientStep(c))
        => c \notin queues /\ cpc[c] = "freed"

Parsing == \E c \in Conns : pc[c] = "data"

\* Whenever a worker is about to take a request apart, the operations it does so with
\* compute what their names say of every short string, in the cases StringsAgree names
\* (SXString.c, SXVector.c), and those of its Swift port what SegmentsSound says
\* (Helper.swift:36-85).
StringsSound == Parsing => StringsAgree /\ SegmentsSound

\* ... and the parser stays within a request of the shape in ParserSound, finds its host,
\* and rewrites it as documented if it Fits (main.c:54-102).
RequestsParsed == Parsing => ParserSound
=============================================================================
