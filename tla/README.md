# spartanX: a TLA+ development

spartanX (`src/`) is a small socket framework in C on top of libdispatch, with a
port to Swift.  This directory holds TLA+ modules for the run loops of both, the
TLC instances that check them, and TLAPS proofs about both servers of the C library, its
client and its sockets, the HTTP proxy's descriptors, and the server and the client of the
Swift port.

Paths are relative to the repository: `src/src/` is the C library,
`src/Swift/spartanX/` the Swift port, `src/Examples/HTTP-proxy/` an older copy of the
library with a proxy built on it.

## The system

| part | state | operations | hard because | what makes it correct |
|---|---|---|---|---|
| dispatch server, `SXServer.c` 35-333 | `status`, `obj.ref_count`, the accept loop's `count` | create, start, suspend, resume, kill, release; per connection: retain, receive, handle, release | the owner, the accept loop and a worker per connection share a plain reference count, a plain guest count and a status word | the server lives while somebody holds it; no more than `max_guest` guests; a suspended connection is quiet; a dead peer gives its place back |
| kqueue server, `SXServer.c` 336-499 | the same, one event array | one loop over batches of events | one thread for all, so order within a batch matters; the loop holds no reference | the count is the open connections; no event for a closed one |
| runtime objects, `sx_object.c`, `SXQueue.c` 60-84 | reference count, status | retain, release, suspend, resume, checks | check and store are apart, `++` and `--` are not atomic | counts exact, stale checks harmless |
| queues, `SXQueue.c` | status, socket | create, free | handles kept by the program after the connection has ended | a handle never dangles |
| client, `SXClient.c` | status, reference, socket, buffer, the loop's `s` | create by address or name, start, the loop, free | the block gives back a reference it never took; `s` is now a length, now a handler's result | a client the program keeps stays allocated; a suspension is not undone |
| sockets, `SXSocket.c` | descriptor, address, `*err_ret` | three constructors, DNS lookup, listen, free | `ERR_RET` stores an error and goes on | the caller learns what failed; descriptors are not lost |
| Swift server and queue, `SXServer.swift`, `SXQueue.swift` | status words, the captured `count` | start, the loop, plain stores to suspend and resume | statuses are copied and written back | the same promises as the C server's |
| Swift client, `SXClient.swift`, `SXQueue.swift` 199-202 | status, owner, `sockfd`, the loop's `s` | init, bind to a queue, start, the loop, close | `close` is for the program and for the block; a descriptor's number is used again; the owner's status is copied over the client's | a client uses its own socket only; a suspension holds |
| Swift data helper, `Helper.swift` | data, a position in them | byte search, segments between separators | the search compares past the end of the data | the segments are the data, cut where the separator is |
| Swift sockets and addresses | descriptor, address, error | lookup, connect, listen | | not modelled |
| vector and string, `SXVector.c`, `SXString.c` | memory, count, length | create, pop, resize, free; search, split, remove, replace, join | arithmetic on lengths and counts, unsigned loop bounds | agreement with operations on sequences, and for which arguments memory is left |
| older server, `Examples/HTTP-proxy/SXServer.c` | as the dispatch server, with one reference count | as there, and `SXKillServer` | a kill closes the socket under `accept`, makes a new one, and races with resume and release | a kill ends the server and each of its connections |
| HTTP proxy, `Examples/HTTP-proxy/main.c`, `SXClient.c` | a queue and a client joined by `udata` | accept, parse, connect, send on, send back, close, free | two blocks that free their halves of a bridge without telling the other; descriptor numbers are used again | every descriptor has one user; answers reach the guest that asked; nothing is left behind |

How they interact: the program creates a server (which creates its socket) and
starts it; the accept loop dispatches one block per connection, which creates a queue,
retains the server, and calls the program's handlers; handlers and other threads of
the program call suspend and resume on servers, queues and clients through the
shared status word.  Nothing is locked anywhere.

`PROJECT.json` lists every component with its status, every definition with the lines
it stands for, and the hazards of the code at the line where each bites.

## The modules

| module | models |
|---|---|
| `SXStatus` | the status word and the checks of `SXSuspendObject`, `SXResumeObject` (the negated codes are kept: the negation of idle is `SX_SUCCESS`) |
| `PlainCounter` | an integer changed by `++` and `--` from several threads: load, then store; remembers whether an update was lost |
| `ConnLife` | the abstract specification: what any loop promises of one connection |
| `SXServer` | the dispatch server: owner, accept loop, workers, program, peers |
| `SXServer_proofs` | its theorems: counts and the end of the server, queues, late calls and `ConnLife` |
| `SXKqueue` | the kqueue loop |
| `SXKqueue_proofs` | its theorems |
| `SXClient` | the client's block, its program, its peer |
| `SXClient_proofs` | its theorems |
| `SXSocket` | several threads creating sockets, one system call at a time |
| `SXSocket_proofs` | its theorems |
| `SwiftServer` | the accept loop and the connection block of the Swift port |
| `SwiftServer_proofs` | its theorems |
| `SwiftClient` | clients of the Swift port, their descriptors, the queue that owns one |
| `SwiftClient_proofs` | its theorems |
| `SXString` | vectors and strings as operators on sequences; `...Defined` says for which arguments the code stays in its memory |
| `SwiftData` | the search of the Swift helper and the segments it cuts, as sets of what the code may return |
| `ProxyRequest` | the request parser of the proxy, on `SXString` |
| `HttpProxy` | workers of guests and blocks of clients, joined by `udata`; extends `ProxyRequest` for what a request leads to, and `SwiftData`, with which the Swift port of this proxy cuts its requests |
| `HttpProxy_proofs` | its theorems, and those about the operators of `SXString` and `SwiftData` |
| `ProxyServer` | the older server: extends `SXServer` with `SXKillServer`, the listening socket, and queues that are freed |
| `ProxyServer_proofs` | its theorems; extends `SXServer_proofs` for the steps the two servers share |
| `MC...` | instances for TLC |

`SXServer`, `SXKqueue`, `SXClient`, `SwiftServer`, `SwiftClient` and `ProxyServer` each instantiate
`ConnLife` with a refinement mapping and are checked to implement it.  `SXServer` and `SXClient` use
`PlainCounter` for the reference count, `SXServer` and `SwiftServer` for the guest count.
In every component module a definition that a comment calls a mutant stands
before the definition it alters; nothing but the mutants of `PROJECT.json` uses it.

### State and steps

A thread of the code is a component of `pc`; each value names a place between two
accesses to memory that other threads see.  A step runs from one such place to the next:
what a thread does to its own locals is part of the step.  `reg` is the register of
a thread half-way through `++` or `--`.

* **SXServer.** A connection stands for its socket, its queue and the block that
  serves it.  `top .. resume` are the body of the `do .. while (s > 0)` loop; `s`
  itself is not a variable, because every branch either sets it or finds it positive.
  `app` is the status store the program is about to make, its check already passed.
  `late` counts the handler calls begun since a suspension was stored, `leaked` the places
  that a refused or failed accept keeps.  The handler may return 0 or more for data;
  with `keepOnEof` also more than 0 for an empty read.
* **SXRelease** tests, decrements, and tests the field again; the second test may use
  the value just stored or a fresh one, which the code does not say, so either is
  possible.  The first test and the load of the decrement are one step: a change
  between them shows as a lost update, or as the test made a moment earlier.
* **Freed memory.** Once `SXFreeServer` has run, a thread that would touch the server
  has undefined behaviour; the model gives it no further step and the properties
  speak of the states before.  The same holds for a freed client.
* **SXKillServer** (and `SXSuspendServer`, `SXResumeServer`) test `server->ref_count`, a member
  of `sx_server` that nothing sets, beside `obj.ref_count`: every call is refused.  The
  model says so (`ServerRefCount`), and the way to end a server is a store of
  `should_terminate` into the public `status`, the action `Terminate`.
* **Queues** are never freed, since `SXCreateQueue` initialises the socket's object
  instead of the queue's (`SXQueue.c:37`): the release at the end takes a count from 0 to
  -1.  That leak is why a stale handle is harmless, which is `QueueHandleValid`.
* **SXKqueue.** `batch` is the events of the last `kevent` not yet worked on.  `s` is
  used uninitialised after the resuming branch: `Test` chooses.  A connection may
  `vanish` from the backlog, after which `accept` blocks the loop.
* **SXClient.** Payloads are their lengths; `call` is the length a handler is given with
  the bytes that were received; what it answers is any of `Replies`, at the end of the data too.  A client made from a host name has no socket
  (`SXSocket.c:172` returns `SX_SUCCESS`, which is NULL) and crashes in `SXStartClient`.
* **SXSocket.** `err` is `*err_ret`; a failed step reports and goes on as the code does.
* **SwiftServer.** `statusDidChange(self.status)` is a load (`note`) and a store: the
  program's store may fall between.  The server's status is read once to be compared
  and once more to be copied.
* **What took effect.** In the Swift modules a status word does not tell whether the program has an
  object suspended, since blocks store statuses they have read before.  `asked` is what the program
  suspended and has not resumed; the history variable `held` remembers what of it took effect (`Settled`: the word holds
  the suspension, and nobody has a status or a resume in hand that would replace it), until
  the program takes it back.  A client also leaves `held` when the owner it is bound to comes to
  run or to resume (`Roused`), because that status is then copied over its own.  `late` counts the handler calls begun since,
  and `ConnLife`'s `quiet` follows `held`: what is stored over the word later gives no leave to
  call the handler.  A suspension that never took effect, because it was stored while a resume or a status was in
hand, is lost in the model as in the code, and nothing is promised of it.
* **SwiftClient.** `table` is the process's descriptors: whose socket each number is.
  `sockfd` keeps its number after the socket is closed, and `socket` hands out the lowest
  free one.  `close` is two steps, `owner = nil` and the system call.  The
  test of `RESUMMING` and the store of `RUNNING` are two (`Switch`, `Resume`).  The
  owner is a queue reduced to its status and to the steps of its loop that read and store it
  (`OwnerSwitch`, `OwnerResume`, `OwnerNoteLoad`, `OwnerNoteStore`); the program and the end of its
  server store there too.  A program starts a client again only after a failed connect.
* **SXString.** A string is the sequence of its characters, a vector the record of its
  count, its memory and the items given to `dealloc`.  Positions are the C code's,
  from 0; -1 stands for the `size_t` of "not found".  The C code's `for` loops are `Loop`, a
  recursive function of the number of turns made.
* **SwiftData.** The bytes after the end of the data may be anything, so a search near the
  end may find a separator that is only begun there, or not: `findBytes` is a set.
* **ProxyRequest.** `parseRequest` is one operator from a text to the host name it finds and
  the text it sends on; `parseRequestDefined` holds for the texts it survives.
* **HttpProxy.** One guest is a worker (`pc`), the queue it frees (`queues`) and at most one
  client (`cpc`, `sock`).  `table` says whose each descriptor number is; `accept` and
  `socket` hand out the lowest free one.  `stray` records that the release of the queue's
  embedded socket, whose count nothing sets, closed a number that was somebody
  else's by then; `crossed` the clients whose bytes reached another's descriptor.  A half that
  touches the other's freed memory is `wild` and takes no further step.  Which request a
  guest sends is chosen when it is parsed, from `Requests`.
* **ProxyServer.** The actions of `SXServer` with three changes: `SXKillServer` runs (`kpc`), a step
  for each access to what the accept loop shares; the listening socket has a state
  (`sfd`), since a kill closes it and puts a bound one in its place; and the release of
  a queue frees it.  `tail` counts a connection's handler calls begun after the kill.

## The runs

Twelve runs, one configuration each; `CHECK_DEADLOCK FALSE` in all of them because the
system does stop, when its loops have ended and no peer comes.  Ten pass; two are
expected to end in a counterexample: each checks what a document or an example says, and
belongs to a finding.

| run | instance | what it shows |
|---|---|---|
| `server_races` | three connections, two places, the owner may release, connections may be refused | `RefAccounting`, `SlotAccounting`, `GuestLimit`, `ServerAlive`: both counts are exact in every interleaving in which no store overwrote another, and then the server is not freed nor a guest too many served |
| `server_shutdown` | two connections, termination, failing accepts with and without an error handler, `Weak` = 4 | the server is freed when all have let go (`NoServerLeak`), a count that reached `sx_weak_object` stays (`WeakSticky`), and when `didKill` is called with a freed server (`DidKillAlive`) |
| `server_suspend` | one connection; it and the server suspended, resumed, ended, killed | at most one late call per suspension, no store into a freed queue (`QueueHandleValid`), `ConnLife` implemented, dead peers cleared |
| `server_resume` | the server suspended and resumed | **violated** `ResumeDelivers`: the server stays `resuming`, each worker copies that at every turn and never reads again |
| `kqueue` | two connections, one place, every failure | the count is the open connections, the event array has room, no event of a batch meets a closed connection, `ConnLife`, dead peers cleared |
| `client` | one program thread with a reference of its own, two payload lengths | the count is exact; a kept client is alive and a freed one has released its socket (`KeptClientAlive`); suspensions stick, `ConnLife`, dead peers cleared |
| `socket_make` | three threads, two descriptors, every kind | only creations that return NULL lose a descriptor (`LeakedByNull`) |
| `swift` | room for one guest or none, one connection, every failure | `ConnLife`, dead peers cleared, and a suspension that has taken effect stays in the status word (`SettledSuspensionSticks`) |
| `swift_client` | one client bound to a queue or not, both suspended and resumed, the queue's own loop; connects fail, are tried again or given up; another client takes a descriptor and gives it back | no block touches another client's socket (`OwnDescriptor`), a suspension of an unowned client that has taken effect stays (`SuspensionHolds`), `ConnLife` |
| `swift_client_closed` | two clients, one closed by the program while it is served | **violated** `OwnDescriptor`: its block goes on and receives from, then closes, the socket made next |
| `http_proxy` | two guests with an origin each; every text of up to four characters over two, requests of four methods, schemes and hosts | every descriptor has the one user it was opened for (`DescriptorsOwned`); bytes cross to another bridge, or freed memory is touched, only after an end has gone (`BridgeSafe`); when both ends have gone both halves are freed (`NoHalfLeft`); what the string operations and the Swift segments compute (`StringsSound`) and what can be relied on of the parser (`RequestsParsed`) |
| `proxy_server` | one connection; the server killed while suspended, resumed, waiting or not yet running, and let go | a kill ends the accept loop (`KillEnds`), no handler is called more than once more (`OneMoreAtMost`), all is freed in the end (`FreedAfterKill`), `ConnLife` |

A type invariant stands in every module; those of `SXServer`, `SXKqueue`, `SXClient`, `SXSocket`,
`SwiftServer`, `SwiftClient` and `HttpProxy` are proved, and no run is spent on them.

**Bounds.** `Conns` of three is the smallest number for which a place given up by one
connection, and one leaked, are both contended; lost updates need two threads,
and a descriptor that is used again two clients; in `swift_client` one of the two is never started
(`Startable`), since it is enough that it takes a number and gives it back.
`MaxUnread` bounds the payloads a peer is ahead: one is enough to be in `recv` when the
status changes, two to receive after that.  The counters do not depend on payloads, so the
runs about counters have none.  `Weak` is 410 in the code and so far out of reach of three
connections; 4 in `server_shutdown` lets counting reach it.  Connections
are symmetric where no liveness property is checked and none is singled out.  `late`, `leaked`, `ref` and `count` have no bound
of their own: each is bounded by the number of threads and connections.

In `http_proxy` two guests are the fewest whose descriptors can be mixed up, and `MaxUnread`
is 1: what crosses, crosses with one payload.  A text of four characters has room for two
occurrences of two that overlap, and for one beside a rest.  The parser's arithmetic depends on
how much longer the scheme is than the method: the lengths chosen make it shorter by more than half and by less, as long,
one longer, longer by a part of the host, by the host and its slash, and by more, where memory outside the text is read;
one host begins as the schemes do, one is a method.  `proxy_server` has one
connection, because a kill races with each worker alone; that it holds of several, whose
counts and whose backlog a kill meets at once, is proved (`ProxyCountsHold`, `ProxyImplementsConnLifeHolds`); a program whose kill stands does not kill again,
and bytes arrive only under a `recv`, where alone they are looked at.

**Fairness.** Weak fairness of the accept loop and of each block: libdispatch runs every
block it was given, on a thread of its own or after the ones before it, and a call that
can return does.  Nothing is assumed of peers or program: they may stop at any time, except that
a call of `SXKillServer` that has begun goes on (`ProxySpec`), as any thread that is not
blocked does.
`DeadPeerCleared` holds wherever the worker is when the peer goes, and names what it excepts: a program that
resumes the connection for ever (`ResumedForEver`: it stores that again and again), a handler that
keeps a connection for ever at its end, and the states the code spins or hangs in: a server that
stays at `resuming`, which one resume of it is enough for; a client or Swift queue ended through its
status; the kqueue loop that waits in `accept` for a connection that has gone (`AcceptBlocked`).

### What the code does that its documents do not say

The two violated properties are among these.  The others are in the model as they are in the code, so
that the properties hold over them; where one says what can be relied on instead, it is named:

* A handler that returns more than 0 for an empty read keeps a connection whose peer
  has gone in a busy loop (`SXServer.c:271`); `readme.md:31` says it ends.
* The suspend branch of a client hands its handler a length received before, with
  bytes received now (`SXClient.c:127`; `sx_event.h:163` calls it the length).
* `didKill` is called after the accept loop's release, which may have freed the server
  (`SXServer.c:330`); `DidKillAlive` says when it has not.
* `statusDidChange` of the Swift queue stores an old status over a suspension stored while it
  runs, contrary to `Swift/readme.md:7`, and so does the `RUNNING` that ends a resume (`SXQueue.swift:88`, 165): the
  connection reads on for its handler.  `SettledSuspensionSticks` says which suspensions stay.  The same two stores undo a resume that
  comes between: a connection may be left suspended that the program has resumed.
* A client suspended between the return of `SXStartClient` and the start of its block
  is running again (`SXClient.c:88`); a payload dropped before the first handler call ends
  a client (`SXClient.c:139`).
* The suspend case of the kqueue loop has no break: the first payload a suspended
  connection receives closes it (`SXServer.c:465`); `readme.md:31` says that it is dropped and
  the connection kept.
* A failed `socket`, `setsockopt` or `bind` ends in `SX_SUCCESS`, since `ERR_RET` does not return
  (`SXSocket.c:109-151`): the test in `SXServer.c:45` never sees it, and after a failed
  `bind` `listen` takes a port of the system's choice.
* `dns_lookup` advances its list before it reads it (`SXSocket.c:52`): the first answer is never used, and
  a list of one, or one with nothing usable behind the first, is walked past its end (`Family`).
* A Swift client suspended while `start` waits in `connect`, or between its block's read of
  `RESUMMING` and store of `RUNNING`, is running afterwards (`SXClient.swift:137`, 162;
  `SuspensionHolds` says which suspensions stay); one whose status was ended goes round without end while `s` is
  positive (181), and one suspended by way of its queue stays so if the queue is set running,
  or its own loop is quicker than the client's (141).
* `SXKillServer` is refused always (`SXServer.c:129`).
* The proxy rewrites a request into the form of the comment at `Examples/HTTP-proxy/main.c:59-70`
  when the scheme is one longer than the method, as for `GET` and `http`.  With a longer scheme the range it
  removes reaches into the host, and the rest comes out as documented only by chance: a `GET` with
  `https` if the host begins with h.  A shorter one, as `http` after `POST`, never
  gives it, nor a method that contains the host.  A request without `://` in its first line, as `CONNECT` makes, and one whose
  scheme is longer than all of the rest read outside their memory.  `RequestsParsed` says what can be
  relied on, and `ParserExact` (proved) exactly what happens.
* In the older library a client ignores the error of `connect` made by name and starts its block on a
  released socket (`SXClient.c:165-199`); a `SXKillServer` before the block has started is
  overwritten by `running` (350-356); an ended server still passes the check of a
  resume, after which its workers turn for ever.
* A split into substrings finds overlapping occurrences, a join leaves the length, `SXVectorResize`
  leaves the count, and `SXStringContainsCString` looks only at the start (`StringsSound`).
* `NSDataSegment` gives out what is left after the last separator as if one followed, but
  drops it when it is shorter than a separator; `Swift/spartanX/Examples/proxy.swift:25-31`
  says it returns what lies between two (`SegmentsSound`).
* A Swift server turns nobody away unless `maxGuest` is 0, and so serves any number at once:
  `LimitNeverBites` is proved.  No run checks it: it is the defect, not a promise.
* A Swift server that was suspended and set running again leaves its queues suspended
  (`SXQueue.swift:134`); set to `RESUMMING`, it makes them spin or close.  An ended one
  makes its queues call `objectWillKill` for ever (191).
* On a serial operating queue the counts cannot be lost; on a concurrent one, which
  `SXServerStart1` and `SXServerStart2` use, they can.
* `struct sx_server` and `struct sx_queue` repeat members of `sx_runtime_items`, so that
  the tree does not compile as it stands; where it matters which one is meant the
  model follows the names the code uses.

## The proofs

Every theorem is for every set of connections, clients or threads and every value of the other
constants, under the named assumption of the module (the sets are finite and the thread
names differ) and what its statement adds.  What a proof needs beside the property is
defined at the head of its section; each `...Next` lemma goes by the cases of
`NextCases`, one step per action or per group of actions that leave the same alone.

**`SXServer_proofs`** (every `max_guest`, every `sx_weak_object` greater than 1, every choice of
`Allowed`):

* `TypeCorrect`: `Spec => []TypeOK`;
* `RefAccountingHolds`: while no update is lost and the count is counted, it is
  the number of holders;
* `WeakStickyHolds`: a count at `sx_weak_object` stays;
* `ServerAliveHolds`: if nothing ends the accept loop, the server is not freed before
  an update is lost;
* `SlotAccountingHolds`, `GuestLimitHolds`: `count` is the places in use and those
  leaked, and no more than `max_guest` of them;
* `NoServerLeakHolds`, `DidKillAliveHolds`: when all have let go the server has been freed, and
  `didKill` meets a freed one only after its owner let go.

The invariants are not inductive alone.  `RefInv` adds to `RefAccounting` that no
register in a pending `++` or `--` holds the uncounted value and that the accept loop
starts from one reference and no connections; a step then moves one thread in or
out of `Holders` exactly when it changes the count (`HoldersMove`), or neither.
`SlotInv` adds to the slots that between the test of the limit and the store of `++count` there is still a
place free: only the accept loop takes places.  `AliveInv` adds that no status is
`should_terminate`, so that the accept loop never reaches its release and remains a
holder: the count cannot be 0.  `EndInv` follows a count of 0: some thread stands at the
test of its release with 0 in its register and will free, and that happens only
when the owner is no holder any more.

Of single connections: `QueueHandleValidHolds` from `QueueInv` (a queue exists from the start of
its block on, and nothing frees it); `LateDeliveryHolds` from `LateInv` (where a late call has been
counted the block is neither in `recv` nor on its way there by a status it will look at, and
while the server runs the suspension is the connection's own);
`ServerImplementsConnLife`, from both and `RefInv`, since a release that fails would leave a
connection half closed.

**`SXKqueue_proofs`**: `TypeCorrect`; `GuestsCountedHolds` and `EventsLiveHolds` from `GuestInv`
(the count is the cardinality of the open connections, and whoever has an event left in the
batch is among them); `KqueueImplementsConnLife` from `LateInv`, where `Fresh` says that nothing
has happened to a connection before it is open, `LateOnce` what keeps it quiet, and
`LateAt` where the loop is not.

**`SXClient_proofs`**: `TypeCorrect`; `RefAccountingHolds` and `KeptClientAliveHolds` from `CountInv`
(one thread of the program at most releases; the count is the block's reference and
the program's; the socket follows the releases).
`SuspensionSticksHolds` and `ClientImplementsConnLife` assume `OneThread`, at most one thread in
the program: two may each pass the check of a suspend and of a resume and store in
the other order, which the library does not promise to sort out.

**`SXSocket_proofs`**: `TypeCorrect`; `LeakedByNullHolds` from `ResultInv`,
which ties a thread's result to the error it was told and to the kind of socket.  It
speaks of one thread at a time, because creating shares nothing but the
descriptors.

**`SwiftServer_proofs`**: `TypeCorrect`; `LimitNeverBitesHolds`,
for which a thread about to store a count must have read none above 0; `SettledSuspensionSticksHolds`
from `AskedStarted` (the program suspends only connections whose block has started, so
that no first store is ahead); `SwiftImplementsConnLife` from `HeldInv` and `LateInv`.  `HeldInv` says what keeps an
object in `held` quiet: no status of its own, none its worker has read and is about to store, and, for a connection, none
its server could hand it, leads back to `recv`.  `LateInv` says that a connection that has had its call is not in `recv`, nor
about to go there by a status it has met.

**`SwiftClient_proofs`**: `TypeCorrect`; `OwnDescriptorHolds` and `SuspensionHoldsAlways`.  `OwnDescriptor` is not
inductive, since it allows a number that is free; `FdsHeld` says that from `init` to
`close` the number is the client's: `Make` takes a free one, which nobody holds, and
`Close` gives one back that only its client holds.  That programs do not close clients
that are served is needed: `swift_client_closed` shows it.  `SuspensionHolds` follows from `HeldInv`: a client in `held`
has no resume in hand, and no status of its own or, while it has an owner, of the owner's to copy, that leads back to
`recv`; nor has the owner's loop one to store while the owner itself is in `held`.  It needs
`CopiesOwned`: the step that copies a status has an owner to copy from.
`ClientsImplementConnLife` rests on `LateInv`: who has had its late call is quiet still, not in `recv`, and past the
switch by a status that does not lead there.  `Calm` covers most of the steps: whatever falls quiet or is woken in them, no
client changes its phase and no handler begins or returns.

**`HttpProxy_proofs`**: `TypeCorrect`; `DescriptorsOwnedHolds`.  The latter is inductive with the types and
`Unstarted` (a client that has not been started has no socket).  The steps that close need that
the holder of a descriptor is unique, those that open that a free number is nobody's.

`BridgeSafeHolds` adds three invariants.  `Halves`: a queue is allocated as long as its worker runs, and
a client has a socket, or had one, from its start until it is freed.  `Parted`: a client that
ends has seen its origin hang up, a worker that leaves its loop its guest, so that what touches
freed memory does so after one end has gone.  `NotCrossed` needs that as long as no close was
stray each descriptor is its user's own (`OwnTheirs`, from `DescriptorsOwned`).
`NoHalfWaitsHolds` is `NoHalfLeft` without ENABLED, which the prover does not know:
`Ready` spells the guards of a worker's and a client's steps out.  `StepsAreReady` proves that every step
needs them; that who is ready can step is not proved, and is why the run keeps `NoHalfLeft` as it is.
The theorem rests on `Reached`: an origin has been reached only by a client that was
started, and a block has a socket or has released it.

`StringsSoundHolds`, with `StringsAgreeHolds` and `SegmentsSoundHolds`, is about data: strings of any length
over any characters.  It assumes `SXStringAssumption` alone: texts and marks are sequences.  Induction over a set of
numbers takes the place of a rule for formulas: `UpTo` says that a set that holds 0, and with
`k - 1` also `k`, holds all up to `n`, since otherwise there were a least number missing.  `TurnsRun`
applies it to a recursive function, which makes a `Loop` a function with a first value and a
turn (`LocationsLoop`, `JoiningIs`, `ReplacingIs`, `RemovingIs`, `GatheringIs`).  The rest follows the loops:

* the search lists the occurrences in their order (`LocationsList`), and with `CuttableIffApart` no piece has a
  negative length exactly when no two of them overlap;
* `Pasted` is what joining has made of the first pieces.  With the mark itself it is the
  string up to the next occurrence (`PastedWithMark`), and an occurrence that begins in a piece
  is the one that ends it (`OccurrenceEndsPiece`): `SplitIsSound`;
* `Tracks` is the invariant of the replacing loop: its two positions stand in one piece, and
  the buffer is what is pasted before it and the part of the piece already copied.  A turn keeps it and
  moves on until the buffer is full (`TurnTracks`), which by the length counted ahead is at the end
  (`LengthAhead`): `ReplaceIsSound`;
* `Walks` is that of the removing loop: the string has shrunk by the marks passed (`Shrunk`), and
  the position is in the piece after the last.  That no two occurrences touch is needed for the step past
  one: the character that moves down to a removal is not looked at (`TurnWalks`): `RemoveIsSound`;
* the values of the Swift port are built from the end of the data back (`RestsAre`); `Segments` says of the rest
  from a position on what `SegmentsSound` says of the whole.

`RequestsParsedHolds` rests on these lemmas and on `ProxyRequestAssumption`: the methods, schemes and hosts are
strings without blank, slash and carriage return, which end them in a request, and no host is
empty.  It is the half of `ParserExactHolds` that a caller can use; the other half is what the parser does with the
requests that do not `Fit`, which is not what its comment promises.  The proof computes where each
mark occurs in a request (`LinesAre`, `LineSearched`, `HeaderWords`, `LineOnce`), which gives the text the parser
returns (`ParsedIs`): what is left of the first line when its range and then the host are removed, and all that
follows it.  That is the documented text exactly if the first lines agree, and `RewrittenFits` goes through
the lengths of the scheme: if it is too short the blank has gone, or two slashes stay (`TooShort`); if it is too long
by the host and its slash, no slash is left (`TooLong`); otherwise the host stands behind the blank with its
first characters taken from the scheme (`TrimmedIsMerged`), and is removed there and nowhere else if they
are its own and the method does not contain it (`MergedRemoved`).  What a removal cannot change (a character it
has none of, two it does not remove, one behind an occurrence) is shown of every turn of its loop
(`NothingNew`, `TwoStay`, `MovesLeft`).

**`ProxyServer_proofs`** (every number of connections, every `max_guest` and `Allowed`): most steps of the
older server are `SXServer`'s, and `SharedIsNext` cites that module's lemmas for them; its own are the kill,
the listening socket, the receives, whose peers may wait, and the queues that are freed.
`ProxyCountsHold` and `ProxyEndHolds` carry `RefInv`, `SlotInv` and `EndInv` over to them: a kill holds nothing and counts
nothing.  `OneMoreAtMostHolds` needs `IdleInv` (the program handles the server only, and a queue's status is idle until its worker starts)
and `TailInv`: once the kill has stored `should_terminate`, nothing makes the server's status running again, and
a worker that has had its call is at no place, and about to read no status, that leads to `recv`.
`ProxyImplementsConnLifeHolds` rests on `LateInv` as `ServerImplementsConnLife` does.

The refinement proofs all have the same shape: the initial states map to `ConnLife`'s; then one lemma
for each of its actions (who arrives, is admitted, called, closed; `Hush` or `Wake` for the steps
that store statuses) and one for the steps within a phase.

In trying to prove the older server's refinement the abstract specification was found too
narrow: a kill closes the listening socket, and with it every connection that waits there
at once, while `ConnLife` refused one at a time.  Its run, with one connection, could not
show it.  `ConnLife` now has `RefuseAll`; all refinements were proved again with it.

Only model-checked:

* everything temporal under fairness: `DeadPeerCleared`, `KillEnds`, `FreedAfterKill`,
  `ResumeDelivers`; a prover for these is not at hand;
* `NoHalfLeft` with its ENABLED, beside `NoHalfWaits`.

## What is left

* The Swift queue and its clients in one module; now the queue is its status and what its loop does to it.
* Runs of what the documents promise and the code does not keep, each of which the list above
  describes: that a suspended connection of the kqueue server stays up, that the caller learns of a failed
  `bind`, that a handler's length is the length, that a Swift server keeps `maxGuest`, that every Swift suspension
  takes effect, that the proxy rewrites every request.
* Properties worth a run: exact counts on a serial operating queue; the payload
  handed on from a `recv` in which the connection was suspended; what the proxy's parser
  makes of a request that arrives in two pieces.

## Not modelled

* In the C library: the contents of the receive buffers; the memory of strings beyond `...Defined`, and with it the use of
  a string after `SXFreeString` has given its characters back (`SXString.c`); the setters of handlers, `killClient` (nothing calls it and it takes a client for a
  socket), send, the contents of payloads and addresses, memory exhaustion other than a
  failed calloc in `SXSocket`.  `SXVectorPushBack` drops what `realloc` returns, so that its vector
  survives by the allocator's choice; insert and erase of vectors are declared only.
  `memcpy` between overlapping regions is taken as a copy forward.
* In the Swift port: sockets and addresses, which keep values and pass system calls on, and throw
  at the first error; the name lookup, which walks the answers as the C one does
  (`SXSocket`) and reads through a null pointer at their end; conversions of strings and pointers; the
  second start of a client that has been served.
* In the proxy: the listening descriptor, which is never closed there; the older kqueue loop, which the
  example has commented out; the close of a stray number by the release of a queue's
  embedded socket is part of `HttpProxy` and left out of `ProxyServer`, where no descriptor
  is used again.
* Hazards that the list of `PROJECT.json` has no place for: a request that fills the buffer of the proxy
  has no terminator (`Examples/HTTP-proxy/main.c:144`); the older `SXCreateServer` hands out what it
  has freed when a step fails (`Examples/HTTP-proxy/SXServer.c:53`); a send to a peer that has
  gone ends the process with SIGPIPE, which `HttpProxy` has as `MayCrash`; a lookup whose
  every answer refuses the connection; the search of `Helper.swift:44`, which reads past
  the end of its data.
* The Xcode project, headers without definitions, precompiled headers, and the Swift example programs.
