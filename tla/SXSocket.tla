------------------------------ MODULE SXSocket ------------------------------
(***************************************************************************)
(* SXSocket.c: making the socket of a server, of a client by address and   *)
(* of a client by host name, one system call at a time, the error each     *)
(* call leaves in *err_ret, and what the caller is handed.  Several        *)
(* threads make sockets at once; they share the process's descriptors and  *)
(* the machine's port.                                                     *)
(*                                                                         *)
(* pc: idle, lookup, socket, domain, options, bind, return, done,          *)
(*     listening, released, crashed                                        *)
(***************************************************************************)
EXTENDS Integers, Sequences, FiniteSets, SequencesExt

CONSTANTS Makers,       \* threads, each makes one socket
          Kinds,        \* of "server", "ip", "hostname"
          Domains,      \* of "inet", "inet6", "other"
          MaxFds,       \* descriptors the process may open
          Lists         \* answers of getaddrinfo: sequences of families, <<>> a failure

ASSUME SXSocketAssumption ==
    /\ IsFiniteSet(Makers)
    /\ Kinds \subseteq {"server", "ip", "hostname"}
    /\ Domains \subseteq {"inet", "inet6", "other"}
    /\ MaxFds \in Nat
    /\ Lists \subseteq Seq({"inet", "inet6", "other"})

VARIABLES pc,
          kind, domain,   \* what is made; the socket's domain, "unset" after calloc
          fd,             \* does the maker's socket hold an open descriptor?
          err,            \* *err_ret
          ret             \* what the maker was returned: none, socket, null

vars == <<pc, kind, domain, fd, err, ret>>

Errors == {"success", "sys_socket", "sys_setsockopt", "sys_bind",
           "invalid_ipaddr", "sys_get_addr_info"}

\* Every variable has its type.
TypeOK ==
    /\ pc \in [Makers -> {"idle", "lookup", "socket", "domain", "options", "bind", "return",
                          "done", "listening", "released", "crashed"}]
    /\ kind \in [Makers -> Kinds]
    /\ domain \in [Makers -> Domains \cup {"unset", "inet"}]
    /\ fd \in [Makers -> BOOLEAN]
    /\ err \in [Makers -> Errors]
    /\ ret \in [Makers -> {"none", "socket", "null"}]
    /\ \A p \in Makers : pc[p] \in {"done", "listening", "released"} <=> ret[p] # "none"

Init ==
    /\ pc = [p \in Makers |-> "idle"]
    /\ kind \in [Makers -> Kinds]
    /\ domain = [p \in Makers |-> "unset"]
    /\ fd = [p \in Makers |-> FALSE]
    /\ err = [p \in Makers |-> "success"]
    /\ ret = [p \in Makers |-> "none"]

Step(p, l, m) == pc[p] = l /\ pc' = [pc EXCEPT ![p] = m]
Report(p, e)  == err' = [err EXCEPT ![p] = e]
Return(p, r)  == ret' = [ret EXCEPT ![p] = r]

\* A dereference of NULL ends the process, and every thread with it.
Alive == \A p \in Makers : pc[p] # "crashed"

\* calloc, and the fields the arguments set; a failed calloc is dereferenced.
Create(p) ==
    /\ \/ /\ kind[p] = "hostname" /\ Step(p, "idle", "lookup") /\ UNCHANGED domain
       \/ /\ kind[p] # "hostname" /\ Step(p, "idle", "socket")
          /\ \E d \in Domains : domain' = [domain EXCEPT ![p] = d]
       \/ Step(p, "idle", "crashed") /\ UNCHANGED domain
    /\ UNCHANGED <<kind, fd, err, ret>>

\* The answers of a list from the n-th on that the switch over ai_family knows.
Usable(list, n) == {i \in n..Len(list) : list[i] \in {"inet", "inet6"}}

\* The list is advanced before it is looked at: the first answer is never used,
\* and a list without a usable family further on is walked to NULL and past it.
Family(list) ==
    IF Usable(list, 2) = {} THEN "null" ELSE list[Min(Usable(list, 2))]

\* dns_lookup; the branch of AF_INET6 does not set the socket's domain.
Lookup(p) ==
    /\ \E list \in Lists :
         \/ /\ list = <<>> /\ Step(p, "lookup", "socket")
            /\ Report(p, "sys_get_addr_info") /\ UNCHANGED domain
         \/ /\ list # <<>> /\ Family(list) = "null" /\ Step(p, "lookup", "crashed")
            /\ UNCHANGED <<err, domain>>
         \/ /\ list # <<>> /\ Family(list) # "null" /\ Step(p, "lookup", "socket")
            /\ Report(p, "success")
            /\ domain' = IF Family(list) = "inet" THEN [domain EXCEPT ![p] = "inet"] ELSE domain
    /\ UNCHANGED <<kind, fd, ret>>

FdsOpen == Cardinality({p \in Makers : fd[p]})

\* socket(2): fails for an unset domain or when no descriptor is left.
Socket(p) ==
    /\ Step(p, "socket", IF kind[p] = "hostname" THEN "options" ELSE "domain")
    /\ \/ /\ FdsOpen < MaxFds /\ domain[p] # "unset"
          /\ fd' = [fd EXCEPT ![p] = TRUE] /\ UNCHANGED err
       \/ /\ FdsOpen >= MaxFds \/ domain[p] = "unset"
          /\ Report(p, "sys_socket") /\ UNCHANGED fd
    /\ UNCHANGED <<kind, domain, ret>>

\* The switch over the domain: the default case returns NULL, descriptor open.
Domain(p) ==
    /\ \/ domain[p] = "other" /\ Step(p, "domain", "done") /\ Return(p, "null")
       \/ domain[p] # "other" /\ Step(p, "domain", "options") /\ UNCHANGED ret
    /\ Report(p, IF domain[p] = "other" THEN "invalid_ipaddr" ELSE err[p])
    /\ UNCHANGED <<kind, domain, fd>>

\* setsockopt on a descriptor that is not there fails, and nothing stops.
Options(p) ==
    /\ Step(p, "options", IF kind[p] = "server" THEN "bind" ELSE "return")
    /\ Report(p, IF fd[p] THEN err[p] ELSE "sys_setsockopt")
    /\ UNCHANGED <<kind, domain, fd, ret>>

\* bind(2), which also fails when another socket has the port.
Bind(p) ==
    /\ Step(p, "bind", "return")
    /\ \/ fd[p] /\ UNCHANGED err
       \/ Report(p, "sys_bind")
    /\ UNCHANGED <<kind, domain, fd, ret>>

\* ERR_RET(SX_SUCCESS) and the socket; by host name SX_SUCCESS itself, which is NULL.
ReturnSocket(p) ==
    /\ Step(p, "return", "done")
    /\ Return(p, IF kind[p] = "hostname" THEN "null" ELSE "socket")
    /\ Report(p, IF kind[p] = "hostname" THEN err[p] ELSE "success")
    /\ UNCHANGED <<kind, domain, fd>>

\* SXSocketListen on a server's socket; if bind failed the system chooses a port, and without a descriptor the error is ignored.
SXSocketListen(p) ==
    /\ kind[p] = "server" /\ ret[p] = "socket" /\ fd[p] /\ Step(p, "done", "listening")
    /\ UNCHANGED <<kind, domain, fd, err, ret>>

\* Mutant: the object is freed and its descriptor left open.
SXFreeSocketOpen(p) ==
    /\ ret[p] = "socket" /\ (Step(p, "done", "released") \/ Step(p, "listening", "released"))
    /\ UNCHANGED <<kind, domain, fd, err, ret>>

\* SXRelease of the only reference: SXFreeSocket closes the descriptor.
SXFreeSocket(p) ==
    /\ ret[p] = "socket" /\ (Step(p, "done", "released") \/ Step(p, "listening", "released"))
    /\ fd' = [fd EXCEPT ![p] = FALSE]
    /\ UNCHANGED <<kind, domain, err, ret>>

Next == /\ Alive
        /\ \E p \in Makers : \/ Create(p) \/ Lookup(p) \/ Socket(p) \/ Domain(p) \/ Options(p)
                             \/ Bind(p) \/ ReturnSocket(p)
                             \/ SXSocketListen(p) \/ SXFreeSocket(p)

Spec == Init /\ [][Next]_vars

-----------------------------------------------------------------------------
(* Properties.                                                             *)

Made(p) == pc[p] \in {"done", "listening", "released"}

\* A descriptor nobody can close any more belongs to a creation that returned NULL:
\* one of an unknown domain, or any by host name; all others end with their socket,
\* even those that ran out of descriptors or lost the port on the way
\* (SXSocket.c:36, 129, 172, 215).
LeakedByNull == \A p \in Makers :
    /\ Made(p) /\ fd[p] /\ pc[p] # "released" /\ ret[p] = "null"
         => domain[p] = "other" \/ kind[p] = "hostname"
    /\ pc[p] = "released" => ~fd[p]
=============================================================================
