------------------------- MODULE SwiftClient_proofs -------------------------
(***************************************************************************)
(* Theorems about SwiftClient, for every set of clients and any bounds.    *)
(***************************************************************************)
EXTENDS SwiftClient, FiniteSetTheorems, TLAPS

\* The case split of every proof below.
LEMMA NextCases ==
    ASSUME Next
    PROVE  \/ \E o \in Managed : SuspendObject(o) \/ ResumeObject(o)
           \/ OwnerSwitch \/ OwnerResume \/ OwnerNoteLoad \/ OwnerNoteStore \/ OwnerEnds
           \/ \E c \in Clients :
                \/ Make(c) \/ Bind(c) \/ Start(c) \/ GiveUp(c) \/ Send(c) \/ Hangup(c)
                \/ Connect(c) \/ ConnectFails(c) \/ Launch(c) \/ Top(c) \/ CopyStatus(c)
                \/ Switch(c) \/ Resume(c) \/ Recv(c) \/ HandlerReturns(c)
                \/ SuspendedRecv(c) \/ Again(c) \/ End(c) \/ Close(c)
  BY DEF Next, Program, Peers, ClientStep, OwnerStep

\* The owner's loop is left alone by all else, and every step is remembered.
LEMMA Remembers ==
    ASSUME Next
    PROVE  Remember /\ (OwnerStep \/ UNCHANGED owner)
  BY DEF Next

USE DEF OwnerAt, OwnerGoto, OwnerMoves
USE DEF At, Goto, Step, Turn, Store, Holds, Jump, LoopPc, fdVars, netVars
USE DEF Status, Idle, Running, Resuming, Suspend, ShouldTerminate

-----------------------------------------------------------------------------
(* Types.                                                                  *)

\* A process with a client has a descriptor for it.
LEMMA SomeFd == Clients = {} \/ 1 \in Fds
  BY SwiftClientAssumption, FS_CardinalityType, FS_EmptySet DEF Fds

LEMMA ControlInit == Init => ControlOK
  BY SomeFd DEF Init, ControlOK

\* What a step does to the variables but for what is remembered.
CodeOK ==
    /\ pc \in [Clients -> {"new", "made", "drop", "gone", "connect", "launch", "closed"} \cup LoopPc]
    /\ stat \in [Clients \cup {Owner} -> Status]
    /\ owned \subseteq Clients /\ asked \subseteq Clients \cup {Owner}
    /\ sockfd \in [Clients -> Fds] /\ table \in [Fds -> Clients \cup {Free}]

OwnerOK == owner \in [pc : {"loop", "resume", "note", "store"}, noted : BOOLEAN, note : Status]

LEMMA OwnerNext == ControlOK /\ Next => OwnerOK'
<1> SUFFICES ASSUME ControlOK, Next PROVE OwnerOK'
  OBVIOUS
<1> USE DEF ControlOK, OwnerOK
<1>1. CASE OwnerSwitch
  BY <1>1 DEF OwnerSwitch
<1>2. CASE OwnerResume \/ OwnerNoteStore \/ OwnerEnds
  BY <1>2 DEF OwnerResume, OwnerNoteStore, OwnerEnds
<1>3. CASE OwnerNoteLoad
  BY <1>3 DEF OwnerNoteLoad
<1>4. QED
  BY <1>1, <1>2, <1>3, Remembers DEF OwnerStep

LEMMA ControlNext == ControlOK /\ [Next]_vars => ControlOK'
<1> SUFFICES ASSUME ControlOK, [Next]_vars PROVE ControlOK'
  OBVIOUS
<1>0. CASE UNCHANGED vars
  BY <1>0 DEF vars, ControlOK
<1> SUFFICES ASSUME Next PROVE CodeOK'
  <2>1. Next => held' \subseteq asked'
    BY Remembers DEF Remember
  <2>2. QED
    BY <1>0, <2>1, OwnerNext DEF ControlOK, CodeOK, OwnerOK
<1> USE SwiftClientAssumption DEF ControlOK, CodeOK
<1>2. ASSUME NEW o \in Managed, SuspendObject(o) \/ ResumeObject(o) PROVE CodeOK'
  BY <1>2 DEF SuspendObject, ResumeObject
<1>3. CASE OwnerSwitch \/ OwnerResume \/ OwnerNoteLoad \/ OwnerNoteStore \/ OwnerEnds
  BY <1>3 DEF OwnerSwitch, OwnerResume, OwnerNoteLoad, OwnerNoteStore, OwnerEnds
<1>4. ASSUME NEW c \in Clients, Make(c) PROVE CodeOK'
  BY <1>4 DEF Make
<1>5. ASSUME NEW c \in Clients, Bind(c) \/ Start(c) \/ GiveUp(c) \/ Send(c) \/ Hangup(c)
      PROVE CodeOK'
  BY <1>5 DEF Bind, Start, GiveUp, Unown, Send, Hangup
<1>6. ASSUME NEW c \in Clients, \/ Connect(c) \/ ConnectFails(c) \/ Launch(c)
                                \/ Top(c) \/ CopyStatus(c)
      PROVE CodeOK'
  BY <1>6 DEF Connect, ConnectFails, Launch, Top, CopyStatus
<1>7. ASSUME NEW c \in Clients, Switch(c) \/ Resume(c) PROVE CodeOK'
  BY <1>7 DEF Switch, Resume
<1>8. ASSUME NEW c \in Clients, Recv(c) \/ HandlerReturns(c) \/ SuspendedRecv(c) \/ Again(c)
      PROVE CodeOK'
  BY <1>8 DEF Recv, HandlerReturns, SuspendedRecv, Again
<1>9. ASSUME NEW c \in Clients, End(c) \/ Close(c) PROVE CodeOK'
  BY <1>9 DEF End, Unown, Close, CloseFd
<1>10. QED
  BY <1>2, <1>3, <1>4, <1>5, <1>6, <1>7, <1>8, <1>9, NextCases

-----------------------------------------------------------------------------
(* Descriptors.                                                            *)

LEMMA FdsHeldNext == ControlOK /\ FdsHeld /\ [Next]_vars => FdsHeld'
<1> SUFFICES ASSUME ControlOK, FdsHeld, [Next]_vars PROVE FdsHeld'
  OBVIOUS
<1> USE SwiftClientAssumption DEF ControlOK, FdsHeld
<1>1. CASE UNCHANGED vars
  BY <1>1 DEF vars
<1>2. ASSUME NEW o \in Managed, SuspendObject(o) \/ ResumeObject(o) PROVE FdsHeld'
  BY <1>2 DEF SuspendObject, ResumeObject
<1>3. CASE OwnerSwitch \/ OwnerResume \/ OwnerNoteLoad \/ OwnerNoteStore \/ OwnerEnds
  BY <1>3 DEF OwnerSwitch, OwnerResume, OwnerNoteLoad, OwnerNoteStore, OwnerEnds
\* A number that is free is held by no other client.
<1>4. ASSUME NEW c \in Clients, Make(c) PROVE FdsHeld'
  BY <1>4 DEF Make
<1>5. ASSUME NEW c \in Clients, Bind(c) \/ Start(c) \/ GiveUp(c) \/ Send(c) \/ Hangup(c)
      PROVE FdsHeld'
  BY <1>5 DEF Bind, Start, GiveUp, Unown, Send, Hangup
<1>6. ASSUME NEW c \in Clients, \/ Connect(c) \/ ConnectFails(c) \/ Launch(c)
                                \/ Top(c) \/ CopyStatus(c)
      PROVE FdsHeld'
  BY <1>6 DEF Connect, ConnectFails, Launch, Top, CopyStatus
<1>7. ASSUME NEW c \in Clients, Switch(c) \/ Resume(c) PROVE FdsHeld'
  BY <1>7 DEF Switch, Resume
<1>8. ASSUME NEW c \in Clients, Recv(c) \/ HandlerReturns(c) \/ SuspendedRecv(c) \/ Again(c)
      PROVE FdsHeld'
  BY <1>8 DEF Recv, HandlerReturns, SuspendedRecv, Again
<1>9. ASSUME NEW c \in Clients, End(c) PROVE FdsHeld'
  BY <1>9 DEF End, Unown
\* The number given back is held by the client that closes, and so by no other.
<1>10. ASSUME NEW c \in Clients, Close(c) PROVE FdsHeld'
  <2> SUFFICES ASSUME NEW d \in Clients,
                      pc'[d] \in {"made", "drop", "connect", "launch"} \cup LoopPc
               PROVE  table'[sockfd'[d]] = d
    OBVIOUS
  <2>1. d # c /\ pc[d] = pc'[d]
    BY <1>10 DEF Close
  <2>2. sockfd[d] # sockfd[c]
    BY <1>10, <2>1 DEF Close
  <2>3. QED
    BY <1>10, <2>1, <2>2 DEF Close, CloseFd
<1>11. QED
  BY <1>1, <1>2, <1>3, <1>4, <1>5, <1>6, <1>7, <1>8, <1>9, <1>10, NextCases

-----------------------------------------------------------------------------
(* Suspensions.                                                            *)

LEMMA CopiesOwnedNext == ControlOK /\ CopiesOwned /\ [Next]_vars => CopiesOwned'
<1> SUFFICES ASSUME ControlOK, CopiesOwned, [Next]_vars PROVE CopiesOwned'
  OBVIOUS
<1> USE DEF ControlOK, CopiesOwned
<1>1. CASE UNCHANGED vars
  BY <1>1 DEF vars
<1>2. ASSUME NEW o \in Managed, SuspendObject(o) \/ ResumeObject(o) PROVE CopiesOwned'
  BY <1>2 DEF SuspendObject, ResumeObject
<1>3. CASE OwnerSwitch \/ OwnerResume \/ OwnerNoteLoad \/ OwnerNoteStore \/ OwnerEnds
  BY <1>3 DEF OwnerSwitch, OwnerResume, OwnerNoteLoad, OwnerNoteStore, OwnerEnds
<1>4. ASSUME NEW c \in Clients, \/ Make(c) \/ Bind(c) \/ Start(c) \/ GiveUp(c)
                                \/ Send(c) \/ Hangup(c)
      PROVE CopiesOwned'
  BY <1>4 DEF Make, Bind, Start, GiveUp, Unown, Send, Hangup
<1>5. ASSUME NEW c \in Clients, \/ Connect(c) \/ ConnectFails(c) \/ Launch(c)
                                \/ Top(c) \/ CopyStatus(c)
      PROVE CopiesOwned'
  BY <1>5 DEF Connect, ConnectFails, Launch, Top, CopyStatus
<1>6. ASSUME NEW c \in Clients, Switch(c) \/ Resume(c) \/ Recv(c) PROVE CopiesOwned'
  BY <1>6 DEF Switch, Resume, Recv
<1>7. ASSUME NEW c \in Clients, HandlerReturns(c) \/ SuspendedRecv(c) \/ Again(c)
      PROVE CopiesOwned'
  BY <1>7 DEF HandlerReturns, SuspendedRecv, Again
<1>8. ASSUME NEW c \in Clients, End(c) \/ Close(c) PROVE CopiesOwned'
  BY <1>8 DEF End, Unown, Close, CloseFd
<1>9. QED
  BY <1>1, <1>2, <1>3, <1>4, <1>5, <1>6, <1>7, <1>8, NextCases

Live == {Running, Resuming}

\* A suspension that took effect: no status of the client, and none that it will copy,
\* leads back to recv, and without an owner the status is the program's still.
HeldClient(c) ==
    /\ pc[c] \in (LoopPc \ {"resume"}) \cup {"closed"} /\ stat[c] \notin Live
    /\ c \in owned => stat[Owner] # Resuming
    /\ pc[c] = "copy" => stat[Owner] \notin Live
    /\ pc[c] \in LoopPc \ {"shut"} /\ c \notin owned => stat[c] = Suspend

\* Nor does any status that the owner's own loop has in hand.
HeldOwner ==
    /\ stat[Owner] \notin Live /\ owner.pc # "resume"
    /\ owner.pc = "store" => owner.note \notin Live

HeldInv ==
    /\ \A o \in Clients \cup {Owner} : Settled(o) => o \in held
    /\ \A c \in held \cap Clients : HeldClient(c)
    /\ Owner \in held => HeldOwner

LEMMA SettledClientNext == ASSUME NEW c \in Clients, Settled(c)' PROVE HeldClient(c)'
  BY SwiftClientAssumption DEF Settled, HeldClient, Live

LEMMA SettledOwnerNext == ASSUME Settled(Owner)' PROVE HeldOwner'
  BY DEF Settled, HeldOwner, Live

LEMMA HeldInit == Init => HeldInv
  BY DEF Init, HeldInv, Settled

\* A client stays held while the program keeps it suspended and its owner is not roused.
LEMMA HeldClientNext ==
    ASSUME ControlOK, CopiesOwned, HeldInv, Next, NEW d \in Clients, d \in held, d \in asked',
           ~Roused(d)
    PROVE  HeldClient(d)'
<1> USE SwiftClientAssumption DEF ControlOK, Live
<1>a. HeldClient(d) /\ d \in asked /\ d # Owner
  BY DEF HeldInv
<1>b. d \in owned /\ stat'[Owner] \in Live => stat'[Owner] = stat[Owner]
  BY DEF Roused
<1>0. ASSUME UNCHANGED <<pc[d], stat[d]>>, d \in owned' <=> d \in owned
      PROVE  HeldClient(d)'
  BY <1>a, <1>b, <1>0 DEF HeldClient, CopiesOwned
<1>1. ASSUME NEW o \in Managed, SuspendObject(o) PROVE HeldClient(d)'
  <2>1. pc' = pc /\ owned' = owned /\ stat' = [stat EXCEPT ![o] = Suspend]
    BY <1>1 DEF SuspendObject
  <2>2. CASE o = d
    BY <1>a, <2>1, <2>2 DEF HeldClient
  <2>3. CASE o # d
    BY <1>0, <2>1, <2>3
  <2>4. QED
    BY <2>2, <2>3
<1>2. ASSUME NEW o \in Managed, ResumeObject(o) PROVE HeldClient(d)'
  BY <1>0, <1>2 DEF ResumeObject
<1>3. CASE OwnerSwitch \/ OwnerResume \/ OwnerNoteLoad \/ OwnerNoteStore \/ OwnerEnds
  BY <1>a, <1>0, <1>3 DEF OwnerSwitch, OwnerResume, OwnerNoteLoad, OwnerNoteStore, OwnerEnds
<1>4. ASSUME NEW c \in Clients, Send(c) \/ Hangup(c) PROVE HeldClient(d)'
  BY <1>0, <1>4 DEF Send, Hangup
\* Steps of another client.
<1>5. ASSUME NEW c \in Clients, c # d,
             \/ Make(c) \/ Bind(c) \/ Start(c) \/ GiveUp(c) \/ Connect(c) \/ ConnectFails(c)
             \/ Launch(c) \/ Top(c) \/ CopyStatus(c) \/ Switch(c) \/ Resume(c)
      PROVE  HeldClient(d)'
  BY <1>0, <1>5 DEF Make, Bind, Start, GiveUp, Unown, Connect, ConnectFails, Launch, Top,
                    CopyStatus, Switch, Resume
<1>6. ASSUME NEW c \in Clients, c # d,
             \/ Recv(c) \/ HandlerReturns(c) \/ SuspendedRecv(c) \/ Again(c) \/ End(c) \/ Close(c)
      PROVE  HeldClient(d)'
  BY <1>0, <1>6 DEF Recv, HandlerReturns, SuspendedRecv, Again, End, Unown, Close, CloseFd
\* Its own: it is served already, and what it copies does not lead back to recv.
<1>7. ASSUME \/ Make(d) \/ Bind(d) \/ Start(d) \/ GiveUp(d) \/ Connect(d) \/ ConnectFails(d)
             \/ Launch(d) \/ Resume(d)
      PROVE FALSE
  BY <1>a, <1>7 DEF HeldClient, Make, Bind, Start, GiveUp, Connect, ConnectFails, Launch, Resume
<1>8. CASE Top(d)
  BY <1>a, <1>8 DEF Top, HeldClient
<1>9. CASE CopyStatus(d)
  <2>1. d \in owned /\ stat[Owner] \notin Live /\ pc[d] = "copy"
    BY <1>a, <1>9 DEF CopyStatus, HeldClient, CopiesOwned
  <2>2. pc'[d] = "switch" /\ owned' = owned /\ stat'[d] = stat[Owner] /\ stat'[Owner] = stat[Owner]
    BY <1>a, <1>9 DEF CopyStatus
  <2>3. QED
    BY <2>1, <2>2 DEF HeldClient
<1>10. CASE Switch(d) \/ Recv(d) \/ HandlerReturns(d) \/ SuspendedRecv(d) \/ Again(d)
  <2>1. /\ UNCHANGED <<stat, owned>> /\ pc[d] \in LoopPc \ {"shut"}
        /\ pc'[d] \in LoopPc \ {"copy", "resume", "shut"}
    BY <1>a, <1>10 DEF Switch, Recv, HandlerReturns, SuspendedRecv, Again, HeldClient
  <2>2. QED
    BY <1>a, <2>1 DEF HeldClient
<1>11. CASE End(d) \/ Close(d)
  <2>1. UNCHANGED stat /\ pc'[d] \in {"shut", "closed"} /\ owned' \subseteq owned
    BY <1>a, <1>11 DEF End, Unown, Close, CloseFd, HeldClient
  <2>2. QED
    BY <1>a, <2>1 DEF HeldClient
<1>12. QED
  BY <1>1, <1>2, <1>3, <1>4, <1>5, <1>6, <1>7, <1>8, <1>9, <1>10, <1>11, NextCases

\* The owner stays held while the program keeps it suspended.
LEMMA HeldOwnerNext ==
    ASSUME ControlOK, HeldInv, Next, Owner \in held, Owner \in asked'
    PROVE  HeldOwner'
<1> USE SwiftClientAssumption DEF ControlOK, Live
<1>a. HeldOwner
  BY DEF HeldInv
<1>0. ASSUME UNCHANGED owner, stat'[Owner] = stat[Owner] \/ stat'[Owner] = Suspend
      PROVE  HeldOwner'
  BY <1>a, <1>0 DEF HeldOwner
<1>1. CASE OwnerSwitch
  <2>1. /\ UNCHANGED stat /\ owner'.pc \in {"note", "resume"}
        /\ owner'.pc = "resume" => stat[Owner] = Resuming
    BY <1>1 DEF OwnerSwitch
  <2>2. QED
    BY <1>a, <2>1 DEF HeldOwner
<1>2. CASE OwnerResume
  BY <1>a, <1>2 DEF OwnerResume, HeldOwner
<1>3. CASE OwnerNoteLoad
  <2>1. UNCHANGED stat /\ owner'.pc = "store" /\ owner'.note = stat[Owner]
    BY <1>3 DEF OwnerNoteLoad
  <2>2. QED
    BY <1>a, <2>1 DEF HeldOwner
<1>4. CASE OwnerNoteStore
  <2>1. owner'.pc = "loop" /\ stat'[Owner] = owner.note /\ owner.pc = "store"
    BY <1>4 DEF OwnerNoteStore
  <2>2. QED
    BY <1>a, <2>1 DEF HeldOwner
<1>5. CASE OwnerEnds
  <2>1. UNCHANGED owner /\ stat'[Owner] \in {ShouldTerminate, Idle}
    BY <1>5 DEF OwnerEnds
  <2>2. QED
    BY <1>a, <2>1 DEF HeldOwner
<1>6. CASE UNCHANGED owner /\ ~OwnerStep
  <2>1. stat'[Owner] = stat[Owner] \/ stat'[Owner] = Suspend
    <3>1. ASSUME NEW o \in Managed, SuspendObject(o) \/ ResumeObject(o)
          PROVE  stat'[Owner] = stat[Owner] \/ stat'[Owner] = Suspend
      BY <3>1 DEF SuspendObject, ResumeObject
    <3>2. ASSUME NEW c \in Clients, \/ Make(c) \/ Bind(c) \/ Start(c) \/ GiveUp(c)
                                    \/ Send(c) \/ Hangup(c) \/ Connect(c) \/ ConnectFails(c)
                                    \/ Launch(c) \/ Top(c) \/ CopyStatus(c)
          PROVE  stat'[Owner] = stat[Owner]
      BY <3>2 DEF Make, Bind, Start, GiveUp, Unown, Send, Hangup, Connect, ConnectFails, Launch,
                  Top, CopyStatus
    <3>3. ASSUME NEW c \in Clients, \/ Switch(c) \/ Resume(c) \/ Recv(c) \/ HandlerReturns(c)
                                    \/ SuspendedRecv(c) \/ Again(c) \/ End(c) \/ Close(c)
          PROVE  stat'[Owner] = stat[Owner]
      BY <3>3 DEF Switch, Resume, Recv, HandlerReturns, SuspendedRecv, Again, End, Unown, Close,
                  CloseFd
    <3>4. QED
      BY <1>6, <3>1, <3>2, <3>3, NextCases DEF OwnerStep
  <2>2. QED
    BY <1>0, <1>6, <2>1
<1>7. QED
  BY <1>1, <1>2, <1>3, <1>4, <1>5, <1>6, Remembers DEF OwnerStep

LEMMA HeldNext == ControlOK /\ CopiesOwned /\ HeldInv /\ [Next]_vars => HeldInv'
<1> SUFFICES ASSUME ControlOK, CopiesOwned, HeldInv, [Next]_vars PROVE HeldInv'
  OBVIOUS
<1>1. CASE UNCHANGED vars
  BY <1>1 DEF vars, HeldInv, HeldClient, HeldOwner, Settled
<1>2. CASE Next
  <2>1. /\ \A o \in asked' : Settled(o)' => o \in held'
        /\ \A o \in held' : Settled(o)' \/ (o \in held /\ o \in asked' /\ (o = Owner \/ ~Roused(o)))
    BY <1>2, Remembers DEF Remember
  <2>2. \A o \in Clients \cup {Owner} : Settled(o)' => o \in held'
    BY <2>1 DEF Settled
  <2>3. ASSUME NEW c \in held' \cap Clients PROVE HeldClient(c)'
    BY <1>2, <2>1, SettledClientNext, HeldClientNext, SwiftClientAssumption
  <2>4. ASSUME Owner \in held' PROVE HeldOwner'
    BY <1>2, <2>1, <2>4, SettledOwnerNext, HeldOwnerNext
  <2>5. QED
    BY <2>2, <2>3, <2>4 DEF HeldInv
<1>3. QED
  BY <1>1, <1>2

-----------------------------------------------------------------------------
(* The theorems.                                                           *)

Inductive == ControlOK /\ FdsHeld /\ CopiesOwned /\ HeldInv

LEMMA InductiveInv == Spec => []Inductive
<1>1. Init => Inductive
  BY ControlInit, HeldInit DEF Init, Inductive, FdsHeld, CopiesOwned
<1>2. Inductive /\ [Next]_vars => Inductive'
  BY ControlNext, FdsHeldNext, CopiesOwnedNext, HeldNext DEF Inductive
<1>3. QED
  BY <1>1, <1>2, PTL DEF Spec

\* In every program that closes only clients it has given up, no block reads or closes a
\* socket that is not its own (SXClient.swift:148, 194).
THEOREM OwnDescriptorHolds == Spec => []OwnDescriptor
<1>1. Inductive => OwnDescriptor
  BY DEF Inductive, FdsHeld, OwnDescriptor
<1>2. QED
  BY <1>1, InductiveInv, PTL

\* Once the suspension of a served client that nothing owns has taken effect, no step of
\* its block takes it back (SXClient.swift:137, 142, 162).
THEOREM SuspensionHoldsAlways == Spec => []SuspensionHolds
<1>1. Inductive => SuspensionHolds
  BY DEF Inductive, HeldInv, HeldClient, SuspensionHolds, ControlOK
<1>2. QED
  BY <1>1, InductiveInv, PTL

-----------------------------------------------------------------------------
(* Late calls: a client that has had its own is quiet still, and neither   *)
(* in recv nor on its way there.                                           *)

LatePlace(c) ==
    late[c] = 1 => /\ pc[c] \in (LoopPc \ {"recv"}) \cup {"closed"}
                   /\ pc[c] \in {"switch", "srecv", "again"} => stat[c] \notin Live

LateInv == /\ late \in [Clients -> {0, 1}]
           /\ \A c \in Clients : LatePlace(c) /\ (late[c] = 1 => Quiet(c))

LEMMA LateInit == Init => LateInv
  BY DEF Init, LateInv, LatePlace

\* How the count of calls moves.
LEMMA LateMoves ==
    ASSUME LateInv, Next, NEW d \in Clients
    PROVE  /\ late'[d] = IF Woken(d) THEN 0 ELSE IF Quiet(d) /\ Begins(d) THEN 1 ELSE late[d]
           /\ Begins(d) => late[d] = 0
<1>1. Begins(d) => late[d] = 0
  BY DEF Begins, LateInv, LatePlace
<1>2. late'[d] = IF Woken(d) THEN 0 ELSE IF Quiet(d) /\ Begins(d) THEN late[d] + 1 ELSE late[d]
  BY Remembers, Zenon DEF Remember
<1>3. QED
  BY <1>1, <1>2

LEMMA LateMap == LateInv /\ Next => late' \in [Clients -> {0, 1}]
<1> SUFFICES ASSUME LateInv, Next PROVE late' \in [Clients -> {0, 1}]
  OBVIOUS
<1>1. \A d \in Clients : late'[d] \in {0, 1}
  BY LateMoves DEF LateInv
<1>2. late' = [d \in Clients |-> late'[d]]
  <2>1. late' = [c \in Clients |-> IF Woken(c) THEN 0
                                   ELSE IF Quiet(c) /\ Begins(c) THEN late[c] + 1 ELSE late[c]]
    BY Remembers, Zenon DEF Remember
  <2>2. QED
    BY <2>1, Zenon
<1>3. QED
  BY <1>1, <1>2

LEMMA LatePlaceNext ==
    ASSUME Inductive, LateInv, Next, NEW d \in Clients
    PROVE  LatePlace(d)'
<1> USE SwiftClientAssumption DEF Inductive, ControlOK, Live
<1> SUFFICES ASSUME late'[d] = 1
             PROVE  /\ pc'[d] \in (LoopPc \ {"recv"}) \cup {"closed"}
                    /\ pc'[d] \in {"switch", "srecv", "again"} => stat'[d] \notin Live
  BY DEF LatePlace
<1>a. ~Woken(d) /\ (Begins(d) \/ late[d] = 1)
  BY LateMoves
<1>b. CASE Begins(d)
  BY <1>b DEF Begins
<1> SUFFICES ASSUME late[d] = 1
             PROVE  /\ pc'[d] \in (LoopPc \ {"recv"}) \cup {"closed"}
                    /\ pc'[d] \in {"switch", "srecv", "again"} => stat'[d] \notin Live
  BY <1>a, <1>b
<1>c. LatePlace(d) /\ d # Owner
  BY DEF LateInv
\* The status that keeps it quiet is its own, or its owner's.
<1>d. \/ stat[d] \notin Live /\ (pc[d] = "copy" => stat[Owner] \notin Live)
      \/ d \in owned /\ stat[Owner] \notin Live
  <2>1. d \in held \/ (d \in owned /\ Owner \in held)
    BY DEF LateInv, Quiet
  <2>2. d \in held => HeldClient(d)
    BY DEF HeldInv
  <2>3. Owner \in held => HeldOwner
    BY DEF HeldInv
  <2>4. QED
    BY <2>1, <2>2, <2>3 DEF HeldClient, HeldOwner
<1>0. ASSUME UNCHANGED <<pc[d], stat[d]>>
      PROVE  /\ pc'[d] \in (LoopPc \ {"recv"}) \cup {"closed"}
             /\ pc'[d] \in {"switch", "srecv", "again"} => stat'[d] \notin Live
  BY <1>c, <1>0 DEF LatePlace
<1> DEFINE Good == /\ pc'[d] \in (LoopPc \ {"recv"}) \cup {"closed"}
                   /\ pc'[d] \in {"switch", "srecv", "again"} => stat'[d] \notin Live
<1>1. ASSUME NEW o \in Managed, SuspendObject(o) PROVE Good
  BY <1>c, <1>1 DEF SuspendObject, LatePlace
<1>2. ASSUME NEW o \in Managed, ResumeObject(o) PROVE Good
  <2>1. o # d
    BY <1>a, <1>2 DEF ResumeObject, Woken
  <2>2. QED
    BY <1>0, <1>2, <2>1 DEF ResumeObject
<1>3. CASE OwnerSwitch \/ OwnerResume \/ OwnerNoteLoad \/ OwnerNoteStore \/ OwnerEnds
  BY <1>c, <1>0, <1>3 DEF OwnerSwitch, OwnerResume, OwnerNoteLoad, OwnerNoteStore, OwnerEnds
<1>4. ASSUME NEW c \in Clients, Send(c) \/ Hangup(c) PROVE Good
  BY <1>0, <1>4 DEF Send, Hangup
<1>5. ASSUME NEW c \in Clients, c # d,
             \/ Make(c) \/ Bind(c) \/ Start(c) \/ GiveUp(c) \/ Connect(c) \/ ConnectFails(c)
             \/ Launch(c) \/ Top(c) \/ CopyStatus(c) \/ Switch(c) \/ Resume(c)
      PROVE  Good
  BY <1>0, <1>5 DEF Make, Bind, Start, GiveUp, Unown, Connect, ConnectFails, Launch, Top,
                    CopyStatus, Switch, Resume
<1>6. ASSUME NEW c \in Clients, c # d,
             \/ Recv(c) \/ HandlerReturns(c) \/ SuspendedRecv(c) \/ Again(c) \/ End(c) \/ Close(c)
      PROVE  Good
  BY <1>0, <1>6 DEF Recv, HandlerReturns, SuspendedRecv, Again, End, Unown, Close, CloseFd
<1>7. ASSUME \/ Make(d) \/ Bind(d) \/ Start(d) \/ GiveUp(d) \/ Connect(d) \/ ConnectFails(d)
             \/ Launch(d) \/ Recv(d)
      PROVE FALSE
  BY <1>c, <1>7 DEF LatePlace, Make, Bind, Start, GiveUp, Connect, ConnectFails, Launch, Recv
\* A client that goes to the switch has its own status to be quiet for, or is given it.
<1>8. CASE Top(d)
  BY <1>d, <1>8 DEF Top
<1>9. CASE CopyStatus(d)
  <2>1. pc'[d] = "switch" /\ stat'[d] = stat[Owner] /\ pc[d] = "copy"
    BY <1>9 DEF CopyStatus
  <2>2. QED
    BY <1>d, <2>1
<1>10. CASE Switch(d) \/ Again(d)
  <2>1. stat[d] \notin {Running} /\ (pc[d] = "again" => stat[d] \notin Live)
    BY <1>c, <1>10 DEF LatePlace, Switch, Again
  <2>2. /\ UNCHANGED stat /\ pc'[d] \in {"resume", "srecv", "top", "end"}
        /\ pc'[d] = "srecv" => stat[d] = Suspend
    BY <1>10, <2>1 DEF Switch, Again
  <2>3. QED
    BY <2>2
<1>11. CASE Resume(d) \/ HandlerReturns(d) \/ End(d)
  <2>1. pc'[d] \in {"top", "end", "shut"}
    BY <1>11 DEF Resume, HandlerReturns, End
  <2>2. QED
    BY <2>1
<1>12. CASE SuspendedRecv(d)
  BY <1>c, <1>12 DEF SuspendedRecv, LatePlace
<1>13. CASE Close(d)
  <2>1. pc'[d] = "closed"
    BY <1>c, <1>13 DEF Close, LatePlace
  <2>2. QED
    BY <2>1
<1>14. QED
  BY <1>1, <1>2, <1>3, <1>4, <1>5, <1>6, <1>7, <1>8, <1>9, <1>10, <1>11, <1>12, <1>13, NextCases

LEMMA LateNext == Inductive /\ LateInv /\ [Next]_vars => LateInv'
<1> SUFFICES ASSUME Inductive, LateInv, [Next]_vars PROVE LateInv'
  OBVIOUS
<1>1. CASE UNCHANGED vars
  BY <1>1 DEF vars, LateInv, LatePlace, Quiet
<1>2. CASE Next
  <2>1. ASSUME NEW d \in Clients, late'[d] = 1 PROVE Quiet(d)'
    BY <1>2, <2>1, LateMoves DEF Woken
  <2>2. QED
    BY <1>2, <2>1, LateMap, LatePlaceNext DEF LateInv
<1>3. QED
  BY <1>1, <1>2

LifeInv == Inductive /\ LateInv

LEMMA LifeInvariant == Spec => []LifeInv
<1>1. Init => LateInv
  BY LateInit
<1>2. QED
  BY <1>1, InductiveInv, LateNext, PTL DEF Spec, LifeInv

-----------------------------------------------------------------------------
(* The remaining types: the loops' s, and what is on the network.          *)

DataOK == /\ s \in [Clients -> {0, 1}]
          /\ inbox \in [Clients -> 0..MaxUnread]
          /\ peer \in [Clients -> {"open", "fin", "rst"}]

\* A close empties the inbox of whoever had the number.
LEMMA ClosedInbox == ASSUME DataOK, NEW c \in Clients, CloseFd(c) PROVE DataOK'
  BY SwiftClientAssumption DEF DataOK, CloseFd

\* A read takes a payload that is there.
LEMMA ReadInbox ==
    ASSUME DataOK, NEW c \in Clients, Payload(c) PROVE inbox' \in [Clients -> 0..MaxUnread]
<1>1. PICK d \in Clients : inbox[d] > 0 /\ inbox' = [inbox EXCEPT ![d] = inbox[d] - 1]
  BY DEF Payload, Got
<1>2. inbox[d] - 1 \in 0..MaxUnread
  BY <1>1, SwiftClientAssumption DEF DataOK
<1>3. QED
  BY <1>1, <1>2 DEF DataOK

LEMMA DataNext == DataOK /\ [Next]_vars => DataOK'
<1> SUFFICES ASSUME DataOK, [Next]_vars PROVE DataOK'
  OBVIOUS
<1>1. CASE UNCHANGED vars
  BY <1>1 DEF vars, DataOK
<1>2. ASSUME UNCHANGED <<s, inbox, peer>> PROVE DataOK'
  BY <1>2 DEF DataOK
<1>3. ASSUME NEW o \in Managed, SuspendObject(o) \/ ResumeObject(o) PROVE DataOK'
  BY <1>2, <1>3 DEF SuspendObject, ResumeObject
<1>4. CASE OwnerSwitch \/ OwnerResume \/ OwnerNoteLoad \/ OwnerNoteStore \/ OwnerEnds
  BY <1>2, <1>4 DEF OwnerSwitch, OwnerResume, OwnerNoteLoad, OwnerNoteStore, OwnerEnds
<1>5. ASSUME NEW c \in Clients,
             \/ Make(c) \/ Bind(c) \/ Start(c) \/ GiveUp(c) \/ Connect(c) \/ ConnectFails(c)
             \/ Launch(c) \/ Top(c) \/ CopyStatus(c) \/ End(c)
      PROVE  DataOK'
  BY <1>2, <1>5 DEF Make, Bind, Start, GiveUp, Unown, Connect, ConnectFails, Launch, Top,
                    CopyStatus, End
<1>6. ASSUME NEW c \in Clients, Send(c) \/ Hangup(c) PROVE DataOK'
  BY <1>6, SwiftClientAssumption DEF Send, Hangup, DataOK
<1>7. ASSUME NEW c \in Clients, Switch(c) \/ Resume(c) \/ HandlerReturns(c) \/ Again(c)
      PROVE  DataOK'
  BY <1>7 DEF Switch, Resume, HandlerReturns, Again, DataOK
<1>8. ASSUME NEW c \in Clients, Recv(c) \/ SuspendedRecv(c) PROVE DataOK'
  <2>1. inbox' \in [Clients -> 0..MaxUnread]
    BY <1>8, ReadInbox DEF Recv, SuspendedRecv, AtEof, Broken, DataOK
  <2>2. UNCHANGED peer /\ (UNCHANGED s \/ s' = [s EXCEPT ![c] = 0])
    BY <1>8 DEF Recv, SuspendedRecv
  <2>3. QED
    BY <2>1, <2>2 DEF DataOK
<1>9. ASSUME NEW c \in Clients, Close(c) PROVE DataOK'
  BY <1>9, ClosedInbox DEF Close
<1>10. QED
  BY <1>1, <1>3, <1>4, <1>5, <1>6, <1>7, <1>8, <1>9, NextCases

\* In every reachable state every variable has its type; that late is 0 or 1 is half of
\* what ConnLife promises.
THEOREM TypeCorrect == Spec => []TypeOK
<1>1. Init => DataOK
  BY SwiftClientAssumption DEF Init, DataOK
<1>2. Spec => []DataOK
  BY <1>1, DataNext, PTL DEF Spec
<1>3. LifeInv /\ DataOK => TypeOK
  BY DEF TypeOK, LifeInv, Inductive, LateInv, DataOK
<1>4. QED
  BY <1>2, <1>3, LifeInvariant, PTL

-----------------------------------------------------------------------------
(* SwiftClient implements ConnLife.                                        *)

InHandler(c) == pc[c] \in {"data", "eof"}

SamePhase    == \A c \in Clients : Phase(c)' = Phase(c)
SameHandling == \A c \in Clients : InHandler(c)' = InHandler(c)

PendingPc == {"made", "connect", "drop"}
LivePc    == LoopPc \cup {"launch"}

\* What a reader of ConnLife sees at each place, before and after a step.
LEMMA Phases ==
    ASSUME NEW c
    PROVE  /\ pc[c] = "new" => Phase(c) = "none"
           /\ pc[c] \in PendingPc => Phase(c) = "pending"
           /\ pc[c] \in LivePc => Phase(c) = "live"
  BY DEF Phase, PendingPc, LivePc

LEMMA PhasesNext ==
    ASSUME NEW c
    PROVE  /\ pc'[c] \in PendingPc => Phase(c)' = "pending"
           /\ pc'[c] = "gone" => Phase(c)' = "refused"
           /\ pc'[c] \in LivePc => Phase(c)' = "live"
           /\ pc'[c] = "closed" => Phase(c)' = "down"
  BY DEF Phase, PendingPc, LivePc

LEMMA Still ==
    ASSUME NEW c, pc'[c] = pc[c]
    PROVE  Phase(c)' = Phase(c) /\ InHandler(c)' = InHandler(c)
<1>1. InHandler(c)' = InHandler(c)
  BY DEF InHandler
<1>2. Phase(c)' = Phase(c)
  BY DEF Phase
<1>3. QED
  BY <1>1, <1>2

\* Clients fall quiet or are woken, each that is woken with all its late calls to come:
\* any step in which no client changes its phase and no handler begins or returns.
LEMMA Calm ==
    ASSUME LateInv, Next, SamePhase, SameHandling
    PROVE  Life!Next
<1>0. ASSUME NEW c \in Clients, Quiet(c)' # Quiet(c) \/ late'[c] # late[c]
      PROVE  late'[c] = 0
  <2>1. ~Begins(c)
    <3>1. ASSUME Begins(c) PROVE InHandler(c)' # InHandler(c)
      <4>1. pc[c] \notin {"data", "eof"} /\ pc'[c] \in {"data", "eof"}
        BY <3>1 DEF Begins
      <4>2. QED
        BY <4>1 DEF InHandler
    <3>2. QED
      BY <3>1 DEF SameHandling
  <2>2. late'[c] = IF Woken(c) THEN 0 ELSE late[c]
    BY <2>1, LateMoves
  <2>3. ~Quiet(c) => late[c] = 0
    BY DEF LateInv
  <2>4. ~Quiet(c)' => Woken(c)
    BY DEF Woken
  <2>5. Quiet(c)' \in BOOLEAN /\ Quiet(c) \in BOOLEAN
    BY DEF Quiet
  <2>6. QED
    BY <1>0, <2>2, <2>3, <2>4, <2>5
<1>1. PICK S \in SUBSET Clients :
        \A c \in Clients : c \in S <=> Quiet(c)' # Quiet(c) \/ late'[c] # late[c]
  <2>1. {c \in Clients : Quiet(c)' # Quiet(c) \/ late'[c] # late[c]} \in SUBSET Clients
    OBVIOUS
  <2>2. QED
    BY <2>1
<1>2. [c \in Clients |-> 1 - late[c]]'
        = [c \in Clients |-> IF c \in S THEN 1 ELSE [d \in Clients |-> 1 - late[d]][c]]
  BY <1>0, <1>1
<1>3. [c \in Clients |-> Quiet(c)]' \in [Clients -> BOOLEAN]
  BY DEF Quiet
<1>4. UNCHANGED <<[c \in Clients |-> Phase(c)], [c \in Clients |-> pc[c] \in {"data", "eof"}]>>
  BY Zenon DEF SamePhase, SameHandling, InHandler
<1>5. \A c \in Clients \ S :
        [d \in Clients |-> Quiet(d)]'[c] = [d \in Clients |-> Quiet(d)][c]
  <2>1. \A c \in Clients \ S : Quiet(c)' = Quiet(c)
    BY <1>1, Zenon
  <2>2. QED
    BY <2>1, Zenon
<1>6. Life!Wake(S)
  BY <1>2, <1>3, <1>4, <1>5 DEF Life!Wake
<1>7. QED
  BY <1>6, Zenon DEF Life!Next

\* A step that moves a client is not the owner's.
LEMMA OwnerStill == ASSUME Next, pc' # pc PROVE UNCHANGED owner
  BY Remembers
  DEF OwnerStep, OwnerSwitch, OwnerResume, OwnerNoteLoad, OwnerNoteStore, OwnerEnds

\* A step that takes one client from a place where nothing is in hand to another, or into
\* or out of its life, leaves every client as quiet as it was.
LEMMA QuietSame ==
    ASSUME ControlOK, HeldInv, Next, UNCHANGED <<stat, owned, asked, owner>>,
           NEW c \in Clients, \A d \in Clients \ {c} : pc'[d] = pc[d],
           pc'[c] \in LoopPc => pc[c] \in LoopPc \ {"copy", "resume"}
    PROVE  \A d \in Clients : Quiet(d)' = Quiet(d)
<1>1. \A o \in Clients \cup {Owner} : Settled(o)' => Settled(o)
  BY SwiftClientAssumption DEF Settled
<1>2. /\ \A o \in held' : Settled(o)' \/ o \in held
      /\ \A o \in held : o \in asked' /\ ~Roused(o) => o \in held'
      /\ held' \subseteq asked'
  BY Remembers DEF Remember
<1>3. \A o : ~Roused(o)
  BY DEF Roused
<1>4. held' = held
  BY <1>1, <1>2, <1>3 DEF ControlOK, HeldInv
<1>5. QED
  BY <1>4 DEF Quiet

\* And when no handler begins, none of its calls is counted or forgotten.
LEMMA LateSame ==
    ASSUME LateInv, Next, UNCHANGED asked,
           \A d \in Clients : Quiet(d)' = Quiet(d) /\ ~Begins(d)
    PROVE  UNCHANGED late
<1>1. ASSUME NEW d \in Clients PROVE late'[d] = late[d]
  <2>1. late'[d] = IF Woken(d) THEN 0 ELSE late[d]
    BY LateMoves
  <2>2. Woken(d) => ~Quiet(d)
    BY DEF Woken
  <2>3. ~Quiet(d) => late[d] = 0
    BY DEF LateInv
  <2>4. QED
    BY <2>1, <2>2, <2>3
<1>2. late \in [Clients -> {0, 1}] /\ late' \in [Clients -> {0, 1}]
  BY LateMap DEF LateInv
<1>3. QED
  BY <1>1, <1>2

LEMMA Becomes ==
    ASSUME NEW c \in Clients, NEW from, NEW to, Phase(c) = from, Phase(c)' = to,
           \A d \in Clients \ {c} : Phase(d)' = Phase(d),
           SameHandling, UNCHANGED late, \A d \in Clients : Quiet(d)' = Quiet(d)
    PROVE  Life!Becomes(c, from, to)
<1>1. [d \in Clients |-> Phase(d)]' = [[d \in Clients |-> Phase(d)] EXCEPT ![c] = to]
  OBVIOUS
<1>2. UNCHANGED <<[d \in Clients |-> InHandler(d)], [d \in Clients |-> Quiet(d)],
                  [d \in Clients |-> 1 - late[d]]>>
  BY Zenon DEF SameHandling
<1>3. [d \in Clients |-> Phase(d)][c] = from
  OBVIOUS
<1>4. QED
  BY <1>1, <1>2, <1>3, Zenon DEF Life!Becomes, InHandler

LEMMA InitImplements == Init => Life!Init
<1> SUFFICES ASSUME Init PROVE Life!Init
  OBVIOUS
<1>1. held = {} /\ owned = {} /\ \A c \in Clients : pc[c] = "new" /\ late[c] = 0
  BY DEF Init
<1>2. [c \in Clients |-> Phase(c)] = [c \in Clients |-> "none"]
  BY <1>1, Phases
<1>3. [c \in Clients |-> pc[c] \in {"data", "eof"}] = [c \in Clients |-> FALSE]
  <2>1. \A c \in Clients : (pc[c] \in {"data", "eof"}) = FALSE
    BY <1>1
  <2>2. QED
    BY <2>1, Zenon
<1>4. [c \in Clients |-> Quiet(c)] = [c \in Clients |-> FALSE]
  <2>1. \A c \in Clients : Quiet(c) = FALSE
    BY <1>1 DEF Quiet
  <2>2. QED
    BY <2>1, Zenon
<1>5. [c \in Clients |-> 1 - late[c]] = [c \in Clients |-> 1]
  BY <1>1
<1>6. QED
  BY <1>2, <1>3, <1>4, <1>5, Zenon DEF Life!Init

\* Data are handed on, or the block learns that there are none to come.
LEMMA Receives ==
    ASSUME LifeInv, Next, NEW c \in Clients, Recv(c)
    PROVE  Life!Next
<1> USE DEF LifeInv, Inductive
<1>1. /\ pc[c] = "recv" /\ pc'[c] \in {"end", "data", "eof"}
      /\ \A d \in Clients \ {c} : pc'[d] = pc[d]
      /\ UNCHANGED <<stat, owned, asked>>
  BY DEF Recv, ControlOK
<1>q. \A d \in Clients : Quiet(d)' = Quiet(d)
  BY <1>1, OwnerStill, QuietSame
<1>2. Phase(c) = "live" /\ Phase(c)' = "live"
  BY <1>1, Phases, PhasesNext DEF LivePc
<1>3. SamePhase
  BY <1>1, <1>2, Still DEF SamePhase
<1>4. CASE pc'[c] = "end"
  <2>1. SameHandling
    BY <1>1, <1>4 DEF SameHandling, InHandler
  <2>2. QED
    BY <1>3, <2>1, Calm
<1>0. ASSUME pc'[c] \in {"data", "eof"}
      PROVE  /\ late[c] = 0 /\ late \in [Clients -> {0, 1}]
             /\ late' = [late EXCEPT ![c] = IF Quiet(c) THEN 1 ELSE 0]
  <2>1. Begins(c) /\ \A d \in Clients \ {c} : ~Begins(d)
    BY <1>0, <1>1 DEF Begins
  <2>2. \A d \in Clients : Woken(d) <=> ~Quiet(d)
    BY <1>1, <1>q DEF Woken
  <2>3. \A d \in Clients : ~Quiet(d) => late[d] = 0
    BY DEF LateInv
  <2>4. late'[c] = (IF Quiet(c) THEN 1 ELSE 0) /\ late[c] = 0
    BY <2>1, <2>2, LateMoves
  <2>5. ASSUME NEW d \in Clients \ {c} PROVE late'[d] = late[d]
    <3>1. late'[d] = IF Woken(d) THEN 0 ELSE late[d]
      BY <2>1, LateMoves
    <3>2. QED
      BY <2>2, <2>3, <3>1
  <2>6. late \in [Clients -> {0, 1}] /\ late' \in [Clients -> {0, 1}]
    BY LateMap DEF LateInv
  <2>7. QED
    BY <2>4, <2>5, <2>6
<1>5. CASE pc'[c] \in {"data", "eof"}
  <2>1. [d \in Clients |-> InHandler(d)]' = [[d \in Clients |-> InHandler(d)] EXCEPT ![c] = TRUE]
    <3>1. InHandler(c)' = TRUE /\ \A d \in Clients \ {c} : InHandler(d)' = InHandler(d)
      BY <1>1, <1>5 DEF InHandler
    <3>2. QED
      BY <3>1
  <2>2. UNCHANGED <<[d \in Clients |-> Phase(d)], [d \in Clients |-> Quiet(d)]>>
    BY <1>3, <1>q, Zenon DEF SamePhase
  <2>3. [d \in Clients |-> InHandler(d)][c] = FALSE
    <3>1. InHandler(c) = FALSE
      BY <1>1 DEF InHandler
    <3>2. QED
      BY <3>1, Zenon
  <2>4. /\ [d \in Clients |-> Phase(d)][c] = "live"
        /\ [d \in Clients |-> Quiet(d)][c] = Quiet(c)
    BY <1>2, Zenon
  <2>5. [d \in Clients |-> 1 - late[d]][c] = 1
    BY <1>0, <1>5
  <2>6. late' = [late EXCEPT ![c] = IF Quiet(c) THEN 1 ELSE 0]
    BY <1>0, <1>5
  <2>7. CASE Quiet(c)
    <3>1. \A d \in Clients : 1 - late'[d] = IF d = c THEN 0 ELSE 1 - late[d]
      BY <1>0, <1>5, <2>6, <2>7
    <3>2. [d \in Clients |-> 1 - late'[d]] = [d \in Clients |-> IF d = c THEN 0 ELSE 1 - late[d]]
      BY <3>1
    <3>3. [d \in Clients |-> 1 - late[d]]' = [[d \in Clients |-> 1 - late[d]] EXCEPT ![c] = 0]
      BY <3>2
    <3>4. Life!Begin(c)
      BY <2>1, <2>2, <2>3, <2>4, <2>5, <2>7, <3>3, Zenon DEF Life!Begin, InHandler
    <3>5. QED
      BY <3>4, Zenon DEF Life!Next
  <2>8. CASE ~Quiet(c)
    <3>1. [d \in Clients |-> 1 - late[d]]' = [d \in Clients |-> 1 - late[d]]
      BY <1>0, <1>5, <2>6, <2>8
    <3>2. Life!Begin(c)
      BY <2>1, <2>2, <2>3, <2>4, <2>8, <3>1, Zenon DEF Life!Begin, InHandler
    <3>3. QED
      BY <3>2, Zenon DEF Life!Next
  <2>9. QED
    BY <2>7, <2>8, Zenon
<1>6. QED
  BY <1>1, <1>4, <1>5

\* A handler returns.
LEMMA Ends ==
    ASSUME LifeInv, Next, NEW c \in Clients, HandlerReturns(c)
    PROVE  Life!End(c)
<1> USE DEF LifeInv, Inductive
<1>1. /\ pc[c] \in {"data", "eof"} /\ pc'[c] \in {"top", "end"}
      /\ \A d \in Clients \ {c} : pc'[d] = pc[d]
      /\ UNCHANGED <<stat, owned, asked>>
  BY DEF HandlerReturns, ControlOK
<1>q. \A d \in Clients : Quiet(d)' = Quiet(d)
  BY <1>1, OwnerStill, QuietSame
<1>l. UNCHANGED late
  BY <1>1, <1>q, LateSame DEF Begins
<1>2. SamePhase
  <2>1. Phase(c)' = Phase(c)
    BY <1>1, Phases, PhasesNext DEF LivePc
  <2>2. QED
    BY <1>1, <2>1, Still DEF SamePhase
<1>3. [d \in Clients |-> InHandler(d)]' = [[d \in Clients |-> InHandler(d)] EXCEPT ![c] = FALSE]
  <2>1. InHandler(c)' = FALSE /\ \A d \in Clients \ {c} : InHandler(d)' = InHandler(d)
    BY <1>1 DEF InHandler
  <2>2. QED
    BY <2>1
<1>4. [d \in Clients |-> InHandler(d)][c] = TRUE
  <2>1. InHandler(c) = TRUE
    BY <1>1 DEF InHandler
  <2>2. QED
    BY <2>1, Zenon
<1>5. UNCHANGED <<[d \in Clients |-> Phase(d)], [d \in Clients |-> Quiet(d)],
                  [d \in Clients |-> 1 - late[d]]>>
  BY <1>l, <1>q, <1>2, Zenon DEF SamePhase
<1>6. QED
  BY <1>3, <1>4, <1>5, Zenon DEF Life!End, InHandler

\* A step that takes one client into or out of its life.
LEMMA EndsOfLife ==
    ASSUME LifeInv, Next, NEW c \in Clients, Make(c) \/ Connect(c) \/ Close(c)
    PROVE  Life!Next
<1> USE DEF LifeInv, Inductive
<1>1. /\ UNCHANGED <<stat, owned, asked>> /\ \A d \in Clients \ {c} : pc'[d] = pc[d]
      /\ \/ pc[c] = "new" /\ pc'[c] = "made"
         \/ pc[c] = "connect" /\ pc'[c] = "launch"
         \/ pc[c] = "drop" /\ pc'[c] = "gone"
         \/ pc[c] = "shut" /\ pc'[c] = "closed"
  BY DEF Make, Connect, Close, CloseFd, ControlOK
<1>2. InHandler(c) = FALSE /\ InHandler(c)' = FALSE
  BY <1>1 DEF InHandler
<1>3. \A d \in Clients : Quiet(d)' = Quiet(d)
  BY <1>1, OwnerStill, QuietSame
<1>l. UNCHANGED late
  BY <1>1, <1>3, LateSame DEF Begins
<1>4. \A d \in Clients \ {c} : Phase(d)' = Phase(d) /\ InHandler(d)' = InHandler(d)
  BY <1>1, Still
<1>5. SameHandling
  BY <1>2, <1>4, Zenon DEF SameHandling
<1>6. CASE pc[c] = "new" /\ pc'[c] = "made"
  <2>1. Life!Becomes(c, "none", "pending")
    BY <1>l, <1>1, <1>3, <1>4, <1>5, <1>6, Phases, PhasesNext, Becomes DEF PendingPc
  <2>2. QED
    BY <2>1, Zenon DEF Life!Next, Life!Arrive
<1>7. CASE pc[c] = "connect" /\ pc'[c] = "launch"
  <2>1. Life!Becomes(c, "pending", "live")
    BY <1>l, <1>1, <1>3, <1>4, <1>5, <1>7, Phases, PhasesNext, Becomes DEF LivePc, PendingPc
  <2>2. QED
    BY <2>1, Zenon DEF Life!Next, Life!Admit
<1>8. CASE pc[c] = "drop" /\ pc'[c] = "gone"
  <2>1. Life!Becomes(c, "pending", "refused")
    BY <1>l, <1>1, <1>3, <1>4, <1>5, <1>8, Phases, PhasesNext, Becomes DEF PendingPc
  <2>2. QED
    BY <2>1, Zenon DEF Life!Next, Life!Refuse
<1>9. CASE pc[c] = "shut" /\ pc'[c] = "closed"
  <2>1. Life!Becomes(c, "live", "down")
    BY <1>l, <1>1, <1>3, <1>4, <1>5, <1>9, Phases, PhasesNext, Becomes DEF LivePc
  <2>2. [d \in Clients |-> InHandler(d)][c] = FALSE
    BY <1>2, Zenon
  <2>3. QED
    BY <2>1, <2>2, Zenon DEF Life!Next, Life!Close, InHandler
<1>10. QED
  BY <1>1, <1>6, <1>7, <1>8, <1>9

\* Any other step of the program or of a block.
LEMMA WithinLife ==
    ASSUME LifeInv, Next, NEW c \in Clients,
           \/ Start(c) \/ ConnectFails(c) \/ GiveUp(c) \/ Launch(c) \/ Top(c) \/ CopyStatus(c)
           \/ Switch(c) \/ Resume(c) \/ SuspendedRecv(c) \/ Again(c) \/ End(c)
    PROVE  Life!Next
<1> USE DEF LifeInv, Inductive
<1> DEFINE Quick == LivePc \ {"data", "eof"}
<1>1. \A d \in Clients \ {c} : pc'[d] = pc[d]
  BY DEF Start, ConnectFails, GiveUp, Launch, Top, CopyStatus, Switch, Resume, SuspendedRecv,
         Again, End, ControlOK
<1>2. \/ (pc[c] \in PendingPc /\ pc'[c] \in PendingPc)
      \/ pc[c] \in Quick /\ pc'[c] \in Quick
  <2>1. CASE Start(c) \/ ConnectFails(c) \/ GiveUp(c)
    BY <2>1 DEF Start, ConnectFails, GiveUp, PendingPc, ControlOK
  <2>2. CASE Launch(c) \/ Top(c) \/ CopyStatus(c) \/ SuspendedRecv(c) \/ End(c)
    BY <2>2 DEF Launch, Top, CopyStatus, SuspendedRecv, End, LivePc, ControlOK
  <2>3. CASE Switch(c) \/ Resume(c)
    BY <2>3 DEF Switch, Resume, LivePc, ControlOK
  <2>4. CASE Again(c)
    BY <2>4 DEF Again, LivePc, ControlOK
  <2>5. QED
    BY <2>1, <2>2, <2>3, <2>4
<1>3. Phase(c)' = Phase(c)
  BY <1>2, Phases, PhasesNext
<1>4. InHandler(c)' = FALSE /\ InHandler(c) = FALSE
  BY <1>2 DEF InHandler, PendingPc
<1>5. SamePhase /\ SameHandling
  <2>1. Phase(c)' = Phase(c) /\ InHandler(c)' = InHandler(c)
    BY <1>3, <1>4, Zenon
  <2>2. \A d \in Clients \ {c} : Phase(d)' = Phase(d) /\ InHandler(d)' = InHandler(d)
    BY <1>1, Still, Zenon
  <2>3. QED
    BY <2>1, <2>2, Zenon DEF SamePhase, SameHandling
<1>6. QED
  BY <1>5, Calm

LEMMA StepImplements == LifeInv /\ [Next]_vars => [Life!Next]_Life!vars
<1> SUFFICES ASSUME LifeInv, [Next]_vars PROVE [Life!Next]_Life!vars
  BY Zenon
<1>1. CASE UNCHANGED vars
  <2>1. \A c \in Clients : UNCHANGED <<Phase(c), InHandler(c), Quiet(c), late[c]>>
    BY <1>1, Still DEF vars, Quiet
  <2>2. UNCHANGED <<[c \in Clients |-> Phase(c)], [c \in Clients |-> InHandler(c)],
                    [c \in Clients |-> Quiet(c)], [c \in Clients |-> 1 - late[c]]>>
    BY <2>1, Zenon
  <2>3. QED
    BY <2>2, Zenon DEF Life!vars, InHandler
<1> SUFFICES ASSUME Next PROVE Life!Next
  BY <1>1, Zenon
<1>0. ASSUME UNCHANGED pc PROVE Life!Next
  BY <1>0, Still, Calm DEF SamePhase, SameHandling, LifeInv
<1>2. ASSUME NEW o \in Managed, SuspendObject(o) \/ ResumeObject(o) PROVE Life!Next
  BY <1>0, <1>2 DEF SuspendObject, ResumeObject
<1>3. CASE OwnerSwitch \/ OwnerResume \/ OwnerNoteLoad \/ OwnerNoteStore \/ OwnerEnds
  BY <1>0, <1>3 DEF OwnerSwitch, OwnerResume, OwnerNoteLoad, OwnerNoteStore, OwnerEnds
<1>4. ASSUME NEW c \in Clients, Bind(c) \/ Send(c) \/ Hangup(c) PROVE Life!Next
  BY <1>0, <1>4 DEF Bind, Send, Hangup
<1>5. ASSUME NEW c \in Clients, HandlerReturns(c) PROVE Life!Next
  BY <1>5, Ends, Zenon DEF Life!Next
<1>6. QED
  BY <1>2, <1>3, <1>4, <1>5, Receives, EndsOfLife, WithinLife, NextCases

\* For any number of clients, whatever is bound, suspended, resumed and given up, their
\* blocks implement ConnLife: one handler call at a time, and at most one more from when a
\* suspension of the client or of its owner has taken effect until the program takes it
\* back or the owner is roused (SXClient.swift:125-196, SXQueue.swift:87-192).
THEOREM ClientsImplementConnLife == Spec => ImplementsConnLife
<1>1. QED
  BY LifeInvariant, InitImplements, StepImplements, PTL DEF Spec, ImplementsConnLife, Life!Spec
=============================================================================
