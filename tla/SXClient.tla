------------------------------ MODULE SXClient ------------------------------
(***************************************************************************)
(* SXClient.c: one client, the block SXStartClient dispatches for it, the  *)
(* program's threads that suspend, resume and release it, and its peer.    *)
(* Payloads are their lengths: the loop's `s' is at times a length and at  *)
(* times what the handler returned, and the code mixes the two.            *)
(*                                                                         *)
(* pc of the block:                                                        *)
(*   created, queued       not started; dispatched                         *)
(*   switch, recv, srecv   the head of the loop, the two recv calls        *)
(*   handler, resume       in the data handler; in the resuming branch     *)
(*   while                 the loop's condition                            *)
(*   exit, release ..      after the exit label                            *)
(***************************************************************************)
EXTENDS Integers, Sequences, FiniteSets, SXStatus

CONSTANTS Apps,         \* the program's threads
          Block,        \* the dispatched block
          Weak,         \* sx_weak_object
          Kinds,        \* how the client was created: "ip", "hostname"
          Keeps,        \* does the program retain the client for itself first?
          Lengths,      \* the lengths of payloads
          Replies,      \* what the data handler may return for a payload
          MaxUnread,    \* bound: payloads a peer sends ahead of the block
          Allowed       \* "suspend", "terminate", "release"

Threads == Apps \cup {Block}

ASSUME SXClientAssumption ==
    /\ IsFiniteSet(Apps) /\ Block \notin Apps
    /\ Weak \in Nat /\ Weak > 2
    /\ Kinds \subseteq {"ip", "hostname"}
    /\ Keeps \in BOOLEAN
    /\ Lengths \subseteq Nat \ {0} /\ Replies \subseteq Nat
    /\ MaxUnread \in Nat

VARIABLES status,       \* client->status
          kind,         \* how it was created
          pc, reg,      \* position and register of every thread
          s, suspended, \* the block's locals
          ref, lost,    \* client->obj.ref_count; has an update been lost?
          freed,        \* has SXFreeClient run?
          sock,         \* client->sock: open, freed, or released once more after that
          kept,         \* does the program still hold its own reference?
          inbox, peer,  \* lengths of the unread payloads; the peer's end
          pend,         \* the status store each program thread is about to make
          call,         \* the handler call: <<length given, bytes received>>
          late          \* handler calls begun since a suspension took effect

clientVars == <<kind, freed, sock, kept>>
loopVars   == <<s, suspended, call, late>>
vars == <<status, kind, pc, reg, s, suspended, ref, lost, freed, sock, kept,
          inbox, peer, pend, call, late>>

Ref == INSTANCE PlainCounter WITH val <- ref

LoopPc  == {"switch", "recv", "srecv", "handler", "resume", "while"}
BlockPc == {"created", "queued", "exit", "didDisconnect", "closed", "crashed"} \cup LoopPc
ReleasePc == {"release", "relStore", "relTest"}

\* Every variable has its type.
TypeOK ==
    /\ status \in Status /\ kind \in Kinds
    /\ pc \in [Threads -> {"idle"} \cup BlockPc \cup ReleasePc]
    /\ pc[Block] \in BlockPc \cup ReleasePc
    /\ \A a \in Apps : pc[a] \in {"idle"} \cup ReleasePc
    /\ reg \in [Threads -> Int]
    /\ s \in Nat /\ suspended \in BOOLEAN
    /\ ref \in Int /\ lost \in BOOLEAN /\ freed \in BOOLEAN
    /\ sock \in {"open", "freed", "twice"}
    /\ kept \in BOOLEAN
    /\ inbox \in Seq(Lengths) /\ peer \in {"open", "fin", "rst"}
    /\ pend \in [Apps -> {<<>>, <<Suspend>>, <<Resuming>>}]
    /\ call \in {<<>>} \cup (Nat \X (Lengths \cup {0}))
    /\ late \in Nat

\* SXCreateClientWithIp, SXCreateClientWithHostname, then the program's SXRetain.
Init ==
    /\ status = Idle
    /\ kind \in Kinds
    /\ pc = [t \in Threads |-> IF t = Block THEN "created" ELSE "idle"]
    /\ reg = [t \in Threads |-> 0]
    /\ s = 0 /\ suspended = FALSE
    /\ ref = (IF Keeps THEN 2 ELSE 1) /\ lost = FALSE /\ freed = FALSE
    /\ sock = "open"
    /\ kept = Keeps
    /\ inbox = <<>> /\ peer = "open"
    /\ pend = [a \in Apps |-> <<>>]
    /\ call = <<>> /\ late = 0

At(t, l)      == pc[t] = l
Goto(t, l)    == pc' = [pc EXCEPT ![t] = l]
Step(t, l, m) == At(t, l) /\ Goto(t, m)

-----------------------------------------------------------------------------
(* SXRelease(client), by the block or by the program.                      *)

AfterRelease(t) == IF t = Block THEN "closed" ELSE "idle"

SXReleaseLoad(t) ==
    /\ At(t, "release") /\ ~freed
    /\ \/ ref = Weak /\ Goto(t, AfterRelease(t)) /\ UNCHANGED <<reg, ref, lost>>
       \/ ref # Weak /\ Goto(t, "relStore") /\ Ref!Load(t)
    /\ UNCHANGED <<status, clientVars, loopVars, inbox, peer, pend>>

\* Mutant: the reference is not given back.
SXReleaseStoreNothing(t) ==
    /\ Step(t, "relStore", "relTest") /\ ~freed
    /\ Ref!StoreAndKeep(t, 0)
    /\ UNCHANGED <<status, clientVars, loopVars, inbox, peer, pend>>

SXReleaseStore(t) ==
    /\ Step(t, "relStore", "relTest") /\ ~freed
    /\ Ref!StoreAndKeep(t, -1)
    /\ UNCHANGED <<status, clientVars, loopVars, inbox, peer, pend>>

\* Mutant: freed when one reference is left.
FreesOne(n) == n = 1

FreesZero(n) == n = 0

\* SXFreeClient releases client->sock: the last reference to it, or, after the
\* block has released it already, memory that is no socket any more.
SXFreeClient == /\ freed' = TRUE
                /\ sock' = IF sock = "open" THEN "freed" ELSE "twice"

\* The value tested is the one just stored or a fresh read of the field.
SXReleaseTest(t) ==
    /\ Step(t, "relTest", AfterRelease(t)) /\ ~freed
    /\ \E seen \in {ref, reg[t]} :
         \/ FreesZero(seen) /\ SXFreeClient
         \/ ~FreesZero(seen) /\ UNCHANGED <<freed, sock>>
    /\ reg' = [reg EXCEPT ![t] = 0]
    /\ UNCHANGED <<status, kind, kept, ref, lost, loopVars, inbox, peer, pend>>

SXRelease(t) == SXReleaseLoad(t) \/ SXReleaseStore(t) \/ SXReleaseTest(t)

-----------------------------------------------------------------------------
(* The program.                                                            *)

\* SXStartClient once connect has succeeded.  A client made from a host name has
\* no socket: SXCreateClientSocketByHostname returns SX_SUCCESS, which is NULL.
SXStartClient ==
    /\ Step(Block, "created", IF kind = "hostname" THEN "crashed" ELSE "queued")
    /\ UNCHANGED <<status, reg, clientVars, loopVars, ref, lost, inbox, peer, pend>>

\* Where the program may call on the client: while it keeps a reference of its
\* own, or until didDisconnect has told it that the connection is over.
Usable(a) ==
    /\ At(a, "idle") /\ pend[a] = <<>>
    /\ kept \/ pc[Block] \in {"queued", "exit", "didDisconnect"} \cup LoopPc
    /\ ~At(Block, "created")

\* SXSuspendObject and SXResumeObject: the check ...
SXSuspendObject(a) ==
    /\ "suspend" \in Allowed /\ Usable(a)
    /\ SuspendPasses(status)
    /\ pend' = [pend EXCEPT ![a] = <<Suspend>>]
    /\ UNCHANGED <<status, pc, reg, clientVars, loopVars, ref, lost, inbox, peer>>

SXResumeObject(a) ==
    /\ "suspend" \in Allowed /\ Usable(a)
    /\ ResumePasses(status)
    /\ pend' = [pend EXCEPT ![a] = <<Resuming>>]
    /\ UNCHANGED <<status, pc, reg, clientVars, loopVars, ref, lost, inbox, peer>>

\* ... and the store.
StatusStore(a) ==
    /\ pend[a] # <<>> /\ ~freed
    /\ status' = pend[a][1]
    /\ late' = IF pend[a][1] = Resuming THEN 0 ELSE late
    /\ pend' = [pend EXCEPT ![a] = <<>>]
    /\ UNCHANGED <<pc, reg, clientVars, s, suspended, call, ref, lost, inbox, peer>>

\* The program stores should_terminate in the public field.
Terminate(a) ==
    /\ "terminate" \in Allowed /\ Usable(a)
    /\ status' = ShouldTerminate
    /\ UNCHANGED <<pc, reg, clientVars, loopVars, ref, lost, inbox, peer, pend>>

\* It gives its own reference back.
AppRelease(a) ==
    /\ "release" \in Allowed
    /\ kept /\ \A b \in Apps : pend[b] = <<>> /\ At(b, "idle")
    /\ Goto(a, "release")
    /\ kept' = FALSE
    /\ UNCHANGED <<status, reg, kind, freed, sock, loopVars, ref, lost, inbox, peer, pend>>

Program == \/ SXStartClient
           \/ \E a \in Apps : \/ SXSuspendObject(a) \/ SXResumeObject(a) \/ StatusStore(a)
                              \/ Terminate(a) \/ AppRelease(a) \/ SXRelease(a)

-----------------------------------------------------------------------------
(* The peer.                                                               *)

FdOpen == sock = "open" /\ pc[Block] \notin {"created", "crashed"}

Send(n) ==
    /\ FdOpen /\ peer = "open" /\ Len(inbox) < MaxUnread
    /\ inbox' = Append(inbox, n)
    /\ UNCHANGED <<status, pc, reg, clientVars, loopVars, ref, lost, peer, pend>>

Hangup ==
    /\ FdOpen /\ peer = "open"
    /\ \/ peer' = "fin" /\ UNCHANGED inbox
       \/ peer' = "rst" /\ inbox' = <<>>
    /\ UNCHANGED <<status, pc, reg, clientVars, loopVars, ref, lost, pend>>

Peer == Hangup \/ \E n \in Lengths : Send(n)

-----------------------------------------------------------------------------
(* The block.                                                              *)

BlockMoves == UNCHANGED <<reg, clientVars, ref, lost, pend>>

\* Status running, whatever it was, and s = 0.
Begin ==
    /\ Step(Block, "queued", "switch")
    /\ status' = Running
    /\ s' = 0
    /\ BlockMoves /\ UNCHANGED <<suspended, call, late, inbox, peer>>

\* The default case of the switch does nothing: the loop goes round while s > 0.
Branch(st) == CASE st = Running  -> "recv"
                [] st = Resuming -> "resume"
                [] st = Suspend  -> "srecv"
                [] OTHER         -> "while"

Switch ==
    /\ Step(Block, "switch", Branch(status))
    /\ suspended' = (suspended \/ status = Suspend)
    /\ BlockMoves /\ UNCHANGED <<status, s, call, late, inbox, peer>>

Resume ==
    /\ Step(Block, "resume", "while")
    /\ status' = Running
    /\ BlockMoves /\ UNCHANGED <<loopVars, inbox, peer>>

AtEof  == inbox = <<>> /\ peer = "fin" /\ UNCHANGED <<inbox, peer>>
Broken == peer = "rst" /\ UNCHANGED <<inbox, peer>>

\* The data handler is called with a length for the bytes received.
Deliver(given, got) ==
    /\ call' = <<given, got>>
    /\ late' = IF status = Suspend THEN late + 1 ELSE late

Take == inbox # <<>> /\ inbox' = Tail(inbox) /\ UNCHANGED peer

\* s == -1 || 0 || client == NULL: only an error ends the loop here.
Recv ==
    /\ At(Block, "recv")
    /\ \/ Take /\ Goto(Block, "handler") /\ s' = Head(inbox) /\ Deliver(s', s')
       \/ AtEof /\ Goto(Block, "handler") /\ s' = 0 /\ Deliver(0, 0)
       \/ Broken /\ Goto(Block, "exit") /\ UNCHANGED <<s, call, late>>
    /\ BlockMoves /\ UNCHANGED <<status, suspended>>

\* Mutant: bytes received in suspension are handed on whatever the status.
SuspendedTargetAlways(st) == "handler"

\* By the status read after recv: the bytes are dropped, or handed on, or the
\* loop is left.
SuspendedTarget(st) == CASE st \in {ShouldTerminate, Idle} -> "exit"
                         [] st \in {Resuming, Running}     -> "handler"
                         [] OTHER                          -> "while"

\* Mutant: an end of file is taken for an empty payload.
SuspendedRecvNoEof ==
    /\ At(Block, "srecv")
    /\ \/ /\ Take /\ Goto(Block, SuspendedTarget(status))
          /\ IF SuspendedTarget(status) = "handler" THEN Deliver(s, Head(inbox))
                                                    ELSE UNCHANGED <<call, late>>
       \/ AtEof /\ Goto(Block, "while") /\ UNCHANGED <<call, late>>
       \/ Broken /\ Goto(Block, "exit") /\ UNCHANGED <<call, late>>
    /\ BlockMoves /\ UNCHANGED <<status, s, suspended>>

\* The handler is given s, which recv of this branch did not set.
SuspendedRecv ==
    /\ At(Block, "srecv")
    /\ \/ /\ Take /\ Goto(Block, SuspendedTarget(status))
          /\ IF SuspendedTarget(status) = "handler" THEN Deliver(s, Head(inbox))
                                                    ELSE UNCHANGED <<call, late>>
       \/ (AtEof \/ Broken) /\ Goto(Block, "exit") /\ UNCHANGED <<call, late>>
    /\ BlockMoves /\ UNCHANGED <<status, s, suspended>>

\* The handler's answer is the program's to choose, whatever it was given: the end
\* of the data too.
HandlerReturns ==
    /\ Step(Block, "handler", "while")
    /\ s' \in Replies
    /\ call' = <<>>
    /\ BlockMoves /\ UNCHANGED <<status, suspended, late, inbox, peer>>

While ==
    /\ Step(Block, "while", IF s > 0 THEN "switch" ELSE "exit")
    /\ BlockMoves /\ UNCHANGED <<status, loopVars, inbox, peer>>

\* SXRelease(client->sock): the only reference to it.
Exit ==
    /\ Step(Block, "exit", "didDisconnect")
    /\ sock' = "freed"
    /\ UNCHANGED <<status, kind, reg, freed, kept, loopVars, ref, lost, inbox, peer, pend>>

DidDisconnect ==
    /\ Step(Block, "didDisconnect", "release")
    /\ BlockMoves /\ UNCHANGED <<status, loopVars, inbox, peer>>

\* The block dereferences the client in every step: with a freed client it has
\* undefined behaviour, and the model lets it do nothing more.
BlockStep ==
    /\ ~freed
    /\ \/ Begin \/ Switch \/ Resume \/ Recv \/ SuspendedRecv \/ HandlerReturns
       \/ While \/ Exit \/ DidDisconnect \/ SXRelease(Block)

\* A dereference of NULL ends the process with every thread in it.
Next == ~At(Block, "crashed") /\ (Program \/ Peer \/ BlockStep)

Spec == Init /\ [][Next]_vars

\* libdispatch runs the block it was given.
FairSpec == Spec /\ WF_vars(BlockStep)

-----------------------------------------------------------------------------
(* Properties.                                                             *)

\* The references that are held: the one the block gives back at its end, which
\* SXCreateClient made, and the program's own.
Holders == {t \in Threads : pc[t] \in {"release", "relStore"}}
           \cup (IF pc[Block] \notin ReleasePc \cup {"closed"} THEN {Block} ELSE {})

\* Until an unsynchronised SXRelease overwrites another, the client's reference
\* count is the number of references not given back yet (sx_object.c:51-68,
\* SXClient.c:146).
RefAccounting ==
    ~lost => ref = Cardinality(Holders) + (IF kept THEN 1 ELSE 0)

\* A program that retained the client before it started it never holds a dangling
\* handle: while it keeps that reference, no end of the block frees the client or
\* releases its socket a second time, unless an update of the count is lost; and a
\* client that is freed has had its socket released twice, by the block and, after
\* SXFreeSocket, by SXFreeClient (SXClient.c:35, 143, 146).
KeptClientAlive ==
    ~lost => /\ kept => ~freed /\ sock # "twice"
             /\ freed => sock = "twice"

\* A client whose status the program sets to suspend stays suspended until the
\* program resumes it: but for the block's first store (SXClient.c:88), the loop's
\* own store of running, after a resume, never undoes a later suspension, when one
\* thread of the program does the suspending (SXClient.c:104-105, sx_object.c:32-47).
SuspensionSticks ==
    [][status = Suspend /\ ~At(Block, "queued") => status' # Running]_vars

\* A client whose peer has hung up is disconnected in the end, suspended or not,
\* with four exceptions: the program resumes it for ever; its handler is called at
\* the end of the data for ever, because it answers that with more than 0
\* (SXClient.c:97-101, 139); the program ends it through the status field, and the
\* loop's default case spins; a lost update of its count freed it.
DeadPeerCleared ==
    \/ []<>(status = Resuming)
    \/ []<>(call = <<0, 0>>)
    \/ <>(status = ShouldTerminate)
    \/ <>freed
    \/ (peer # "open" /\ pc[Block] \in LoopPc) ~> pc[Block] = "closed"

\* What a reader of ConnLife sees of a client.
Phase == CASE pc[Block] \in {"created", "crashed"}              -> "none"
           [] pc[Block] \in {"queued"}                          -> "pending"
           [] pc[Block] \in LoopPc \cup {"exit"}                -> "live"
           [] OTHER                                             -> "down"

One(x) == [c \in {Block} |-> x]

Life == INSTANCE ConnLife WITH
            Conns    <- {Block},
            phase    <- One(Phase),
            handling <- One(pc[Block] = "handler"),
            quiet    <- One(status = Suspend /\ ~At(Block, "queued")),
            credit   <- One(1 - late)

\* The client implements ConnLife as a server's connection does: one handler call
\* at a time, none outside the connection's life, one late call per suspension.
ImplementsConnLife == Life!Spec
=============================================================================
