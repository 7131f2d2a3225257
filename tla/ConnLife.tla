------------------------------ MODULE ConnLife ------------------------------
(***************************************************************************)
(* What the library promises of one connection, whatever loop runs it: it  *)
(* is turned down or served once, its data handler runs one call at a time *)
(* and only between the two ends of its life, its socket is not closed     *)
(* under a running handler, and while it is quiet (suspended) at most one  *)
(* more call begins until it is woken again.                               *)
(***************************************************************************)
EXTENDS Naturals

CONSTANT Conns

VARIABLES phase,        \* none, pending, live, down, refused
          handling,     \* is the data handler running?
          quiet,        \* is the connection suspended?
          credit        \* calls that may still begin while it is quiet

vars == <<phase, handling, quiet, credit>>

TypeOK == /\ phase \in [Conns -> {"none", "pending", "live", "down", "refused"}]
          /\ handling \in [Conns -> BOOLEAN]
          /\ quiet \in [Conns -> BOOLEAN]
          /\ credit \in [Conns -> {0, 1}]

Init == /\ phase = [c \in Conns |-> "none"]
        /\ handling = [c \in Conns |-> FALSE]
        /\ quiet = [c \in Conns |-> FALSE]
        /\ credit = [c \in Conns |-> 1]

Becomes(c, from, to) == /\ phase[c] = from
                        /\ phase' = [phase EXCEPT ![c] = to]
                        /\ UNCHANGED <<handling, quiet, credit>>

Arrive(c) == Becomes(c, "none", "pending")
Refuse(c) == Becomes(c, "pending", "refused")
Admit(c)  == Becomes(c, "pending", "live")
Close(c)  == ~handling[c] /\ Becomes(c, "live", "down")

Begin(c) == /\ phase[c] = "live" /\ ~handling[c]
            /\ handling' = [handling EXCEPT ![c] = TRUE]
            /\ \/ ~quiet[c] /\ UNCHANGED credit
               \/ quiet[c] /\ credit[c] = 1 /\ credit' = [credit EXCEPT ![c] = 0]
            /\ UNCHANGED <<phase, quiet>>

End(c) == /\ handling[c]
          /\ handling' = [handling EXCEPT ![c] = FALSE]
          /\ UNCHANGED <<phase, quiet, credit>>

\* A listening socket that is closed turns down all that still wait at it.
RefuseAll(S) == /\ \A c \in S : phase[c] = "pending"
                /\ phase' = [c \in Conns |-> IF c \in S THEN "refused" ELSE phase[c]]
                /\ UNCHANGED <<handling, quiet, credit>>

\* Suspending a server suspends several connections at once; a quiet connection
\* may also be stirred by the end of its server, which gives it no new credit.
Hush(S) == /\ quiet' = [c \in Conns |-> c \in S]
           /\ UNCHANGED <<phase, handling, credit>>

\* A connection of S is resumed, though its server may keep it quiet.
Wake(S) == /\ quiet' \in [Conns -> BOOLEAN]
           /\ \A c \in Conns \ S : quiet'[c] = quiet[c]
           /\ credit' = [c \in Conns |-> IF c \in S THEN 1 ELSE credit[c]]
           /\ UNCHANGED <<phase, handling>>

Next == \/ \E S \in SUBSET Conns : RefuseAll(S) \/ Hush(S) \/ Wake(S)
        \/ \E c \in Conns : \/ Arrive(c) \/ Refuse(c) \/ Admit(c) \/ Close(c)
                            \/ Begin(c) \/ End(c)

Spec == Init /\ [][Next]_vars
=============================================================================
