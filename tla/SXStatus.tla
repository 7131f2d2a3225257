------------------------------ MODULE SXStatus ------------------------------
(***************************************************************************)
(* The status word every runtime object of the library carries (servers,   *)
(* queues, clients) and the checks SXSuspendObject and SXResumeObject make *)
(* before they store a new one.                                            *)
(*                                                                         *)
(* The numbers are kept: a refused check returns the NEGATED status, and   *)
(* the negation of sx_status_idle is SX_SUCCESS.                           *)
(***************************************************************************)
EXTENDS Integers

Idle            == 0
Running         == 1
Resuming        == 2
Suspend         == 3
ShouldTerminate == 4

\* The values the library stores.  sx_status_ignored and sx_status_should_kill
\* are declared and never stored.
Status == {Idle, Running, Resuming, Suspend, ShouldTerminate}

SX_SUCCESS == 0

SXCheckStatus(current, required) ==
    IF current = required THEN SX_SUCCESS ELSE -1 * current

SXCheckCompatibleStatus(current, allowed) ==
    IF current \in allowed THEN SX_SUCCESS ELSE -1 * current

\* Mutant: an object that is about to resume may be suspended.
SuspendPassesResuming(current) ==
    SXCheckCompatibleStatus(current, {Idle, Running, Resuming}) = SX_SUCCESS

\* The stores are guarded by SX_RETURN_ERR(check): made when the check's
\* result is SX_SUCCESS.
SuspendPasses(current) == SXCheckCompatibleStatus(current, {Idle, Running}) = SX_SUCCESS

ResumePasses(current) == SXCheckStatus(current, Suspend) = SX_SUCCESS
=============================================================================
