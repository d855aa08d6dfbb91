---------------------------- MODULE AtMostOnce ----------------------------
(***************************************************************************)
(* What a request layer of this client promises its caller about requests  *)
(* that change the server.  A call is executed at most once.  A call that  *)
(* is reported as succeeded has been executed.  A call that is reported as *)
(* failed with a definite error has not been executed and never will be.   *)
(* Only a call reported with an unknown outcome may go either way, and it  *)
(* may even be executed after the report.                                  *)
(*                                                                         *)
(* The promise is the one README.md makes under "Recovery and leases" and  *)
(* error.rs makes in Error::is_outcome_unknown.  RpcClient implements it   *)
(* for one TCP stream; Recovery implements it for a mutating COMPOUND.     *)
(***************************************************************************)
EXTENDS Naturals

CONSTANT Calls

VARIABLES
    begun,     \* calls the caller has made
    execs,     \* how many times the server has executed each call
    reported   \* what the caller was told

Reports == {"none", "ok", "error", "unknown"}

vars == <<begun, execs, reported>>

Init ==
    /\ begun = {}
    /\ execs = [c \in Calls |-> 0]
    /\ reported = [c \in Calls |-> "none"]

Begin(c) ==
    /\ c \notin begun
    /\ begun' = begun \cup {c}
    /\ UNCHANGED <<execs, reported>>

\* A call that was already answered with a definite report is not executed.
Execute(c) ==
    /\ c \in begun
    /\ execs[c] = 0
    /\ reported[c] \in {"none", "unknown"}
    /\ execs' = [execs EXCEPT ![c] = 1]
    /\ UNCHANGED <<begun, reported>>

Report(c, r) ==
    /\ c \in begun
    /\ reported[c] = "none"
    /\ r = "ok" => execs[c] = 1
    /\ r = "error" => execs[c] = 0
    /\ reported' = [reported EXCEPT ![c] = r]
    /\ UNCHANGED <<begun, execs>>

\* The call is refused before anything of it leaves the client.
Refuse(c) ==
    /\ c \notin begun
    /\ begun' = begun \cup {c}
    /\ \E r \in {"error", "unknown"} : reported' = [reported EXCEPT ![c] = r]
    /\ UNCHANGED execs

\* One step of the layer may execute a call and report it.
ExecuteAndReport(c, r) ==
    /\ c \in begun
    /\ execs[c] = 0
    /\ reported[c] = "none"
    /\ r \in {"ok", "unknown"}
    /\ execs' = [execs EXCEPT ![c] = 1]
    /\ reported' = [reported EXCEPT ![c] = r]
    /\ UNCHANGED begun

Next ==
    \E c \in Calls :
        \/ Begin(c)
        \/ Refuse(c)
        \/ Execute(c)
        \/ \E r \in {"ok", "error", "unknown"} : Report(c, r)
        \/ \E r \in {"ok", "unknown"} : ExecuteAndReport(c, r)

Spec == Init /\ [][Next]_vars
=============================================================================
