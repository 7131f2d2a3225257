--------------------------- MODULE SXSocket_proofs ---------------------------
(***************************************************************************)
(* Theorems about SXSocket, for every set of makers, of kinds, of domains  *)
(* and of answers, and every number of descriptors.                        *)
(***************************************************************************)
EXTENDS SXSocket, TLAPS

\* What one maker's step is.
Acts(p) == \/ Create(p) \/ Lookup(p) \/ Socket(p) \/ Domain(p) \/ Options(p) \/ Bind(p)
           \/ ReturnSocket(p) \/ SXSocketListen(p) \/ SXFreeSocket(p)

Places == {"idle", "lookup", "socket", "domain", "options", "bind", "return",
           "done", "listening", "released", "crashed"}

\* The variables as functions; the last conjunct of TypeOK relates two of them.
MapsOK == /\ pc \in [Makers -> Places] /\ kind \in [Makers -> Kinds]
          /\ domain \in [Makers -> Domains \cup {"unset", "inet"}]
          /\ fd \in [Makers -> BOOLEAN] /\ err \in [Makers -> Errors]
          /\ ret \in [Makers -> {"none", "socket", "null"}]

MadeIffReturned(p) == Made(p) <=> ret[p] # "none"

LEMMA TypeParts == TypeOK <=> MapsOK /\ \A p \in Makers : MadeIffReturned(p)
  BY DEF TypeOK, MapsOK, Places, MadeIffReturned, Made

LEMMA MapsNext == ASSUME MapsOK, NEW p \in Makers, Acts(p) PROVE MapsOK'
<1> USE DEF MapsOK, Places, Errors, Step, Report, Return
<1>1. CASE Create(p)
  BY <1>1 DEF Create
<1>2. CASE Lookup(p)
  <2>1. /\ \E l \in {"socket", "crashed"} : pc' = [pc EXCEPT ![p] = l]
        /\ UNCHANGED err \/ \E e \in {"sys_get_addr_info", "success"} : err' = [err EXCEPT ![p] = e]
        /\ UNCHANGED domain \/ domain' = [domain EXCEPT ![p] = "inet"]
        /\ UNCHANGED <<kind, fd, ret>>
    BY <1>2 DEF Lookup
  <2>2. QED
    BY <2>1
<1>3. CASE Socket(p)
  BY <1>3 DEF Socket
<1>4. CASE Domain(p) \/ Options(p)
  BY <1>4 DEF Domain, Options
<1>5. CASE Bind(p) \/ SXSocketListen(p) \/ SXFreeSocket(p)
  BY <1>5 DEF Bind, SXSocketListen, SXFreeSocket
<1>6. CASE ReturnSocket(p)
  BY <1>6 DEF ReturnSocket
<1>7. QED
  BY <1>1, <1>2, <1>3, <1>4, <1>5, <1>6 DEF Acts

\* What was handed over stays, and what it says of one maker no other maker's step changes.
LEMMA OthersKeep ==
    ASSUME MapsOK, NEW p \in Makers, Acts(p)
    PROVE  /\ kind' = kind
           /\ \A q \in Makers \ {p} : /\ pc'[q] = pc[q] /\ domain'[q] = domain[q]
                                      /\ fd'[q] = fd[q] /\ err'[q] = err[q] /\ ret'[q] = ret[q]
<1> USE DEF MapsOK, Step, Report, Return
<1>1. CASE Create(p)
  BY <1>1 DEF Create
<1>2. CASE Lookup(p)
  <2>1. /\ \E l : pc' = [pc EXCEPT ![p] = l]
        /\ UNCHANGED err \/ \E e : err' = [err EXCEPT ![p] = e]
        /\ UNCHANGED domain \/ domain' = [domain EXCEPT ![p] = "inet"]
        /\ UNCHANGED <<kind, fd, ret>>
    BY <1>2 DEF Lookup
  <2>2. QED
    BY <2>1
<1>3. CASE Socket(p) \/ Domain(p)
  BY <1>3 DEF Socket, Domain
<1>4. CASE Options(p) \/ Bind(p)
  BY <1>4 DEF Options, Bind
<1>5. CASE ReturnSocket(p) \/ SXSocketListen(p) \/ SXFreeSocket(p)
  BY <1>5 DEF ReturnSocket, SXSocketListen, SXFreeSocket
<1>6. QED
  BY <1>1, <1>2, <1>3, <1>4, <1>5 DEF Acts

-----------------------------------------------------------------------------
(* What a maker is handed.                                                 *)

\* A maker's result, and the two reasons for one of NULL.
ResultOf(p) ==
    /\ MadeIffReturned(p)
    /\ ret[p] = "null" => domain[p] = "other" \/ kind[p] = "hostname"
    /\ pc[p] = "released" => ~fd[p]

ResultInv == MapsOK /\ \A p \in Makers : ResultOf(p)

LEMMA ResultInit == Init => ResultInv
  BY DEF Init, ResultInv, ResultOf, MapsOK, Places, Errors, MadeIffReturned, Made

\* Only the two steps that hand a result over change it, and they go by the kind.
LEMMA ResultKept ==
    ASSUME MapsOK, NEW p \in Makers, ResultOf(p), Acts(p)
    PROVE  ResultOf(p)'
<1> USE DEF MapsOK, Places, ResultOf, MadeIffReturned, Made, Step, Report, Return
<1>1. CASE Create(p)
  BY <1>1 DEF Create
<1>2. CASE Lookup(p)
  <2>1. /\ \E l \in {"socket", "crashed"} : pc' = [pc EXCEPT ![p] = l]
        /\ pc[p] = "lookup" /\ UNCHANGED <<kind, fd, ret>>
    BY <1>2 DEF Lookup
  <2>2. QED
    BY <2>1
<1>3. CASE Socket(p)
  BY <1>3 DEF Socket
<1>4. CASE Domain(p)
  BY <1>4 DEF Domain
<1>5. CASE Options(p)
  BY <1>5 DEF Options
<1>6. CASE Bind(p)
  BY <1>6 DEF Bind
<1>7. CASE ReturnSocket(p)
  BY <1>7 DEF ReturnSocket
<1>8. CASE SXSocketListen(p) \/ SXFreeSocket(p)
  BY <1>8 DEF SXSocketListen, SXFreeSocket
<1>9. QED
  BY <1>1, <1>2, <1>3, <1>4, <1>5, <1>6, <1>7, <1>8 DEF Acts

LEMMA ResultNext == ResultInv /\ [Next]_vars => ResultInv'
<1> SUFFICES ASSUME ResultInv, [Next]_vars PROVE ResultInv'
  OBVIOUS
<1>1. CASE UNCHANGED vars
  BY <1>1 DEF vars, ResultInv, ResultOf, MapsOK, MadeIffReturned, Made
<1>2. ASSUME NEW p \in Makers, Acts(p) PROVE ResultInv'
  <2>1. MapsOK'
    BY <1>2, MapsNext DEF ResultInv
  <2>2. ASSUME NEW q \in Makers PROVE ResultOf(q)'
    <3>1. CASE q = p
      BY <1>2, <3>1, ResultKept DEF ResultInv
    <3>2. CASE q # p
      <4>1. /\ UNCHANGED <<pc[q], domain[q], fd[q], err[q], ret[q], kind[q]>>
        BY <1>2, <3>2, OthersKeep DEF ResultInv
      <4>2. QED
        BY <4>1 DEF ResultInv, ResultOf, MadeIffReturned, Made
    <3>3. QED
      BY <3>1, <3>2
  <2>3. QED
    BY <2>1, <2>2 DEF ResultInv
<1>3. QED
  BY <1>1, <1>2 DEF Next, Acts

LEMMA ResultInvariant == Spec => []ResultInv
  BY ResultInit, ResultNext, PTL DEF Spec

\* In every reachable state every variable has its type, and a maker has a result
\* exactly when it has been given one.
THEOREM TypeCorrect == Spec => []TypeOK
<1>1. ResultInv => TypeOK
  BY TypeParts DEF ResultInv, ResultOf
<1>2. QED
  BY <1>1, ResultInvariant, PTL

\* For any number of threads: only a creation that returns NULL for its domain or its
\* kind loses a descriptor (SXSocket.c:36, 129, 172, 215).
THEOREM LeakedByNullHolds == Spec => []LeakedByNull
<1>1. ResultInv => LeakedByNull
  BY DEF ResultInv, ResultOf, LeakedByNull
<1>2. QED
  BY <1>1, ResultInvariant, PTL

=============================================================================
