----------------------------- MODULE HostCalls -----------------------------
(***************************************************************************)
(* What a call promises about the hosts it asks (server.py), without       *)
(* futures, threads or queues: their handlers begin in the order of the    *)
(* hosts, a bounded number at a time; the work is done when all have       *)
(* ended, and nothing begins or goes on after it is done, has raised or    *)
(* was dropped.  FanOut implements this for one fan-out, Dispatch for each *)
(* of its calls.                                                           *)
(***************************************************************************)
EXTENDS Integers, FiniteSets

CONSTANTS MaxHosts, Parallelism

HostIds == 1..MaxHosts
Endings == {"ok", "nonzero", "value_error", "exception"}

VARIABLES
    size,    \* number of hosts, 0 until the call comes
    status,  \* "open", "done", "raised", "dropped"
    host     \* [HostIds -> "todo", "running" or how the handler ended]

vars == <<size, status, host>>

Hosts == 1..size
Todo == {h \in Hosts : host[h] = "todo"}
Running == {h \in Hosts : host[h] = "running"}

Init ==
    /\ size \in 0..MaxHosts
    /\ status = "open"
    /\ host = [h \in HostIds |-> "todo"]

Ask ==
    /\ status = "open" /\ size = 0
    /\ size' \in HostIds
    /\ UNCHANGED <<status, host>>

Begin(h) ==
    /\ status = "open"
    /\ h \in Todo /\ \A g \in Todo : h <= g
    /\ Cardinality(Running) < Parallelism
    /\ host' = [host EXCEPT ![h] = "running"]
    /\ UNCHANGED <<size, status>>

End(h) ==
    /\ status = "open"
    /\ h \in Running
    /\ \E e \in Endings : host' = [host EXCEPT ![h] = e]
    /\ UNCHANGED <<size, status>>

Done ==
    /\ status = "open" /\ size # 0
    /\ Todo = {} /\ Running = {}
    /\ status' = "done"
    /\ UNCHANGED <<size, host>>

\* Work that raises has nothing running, and was more than one host or never
\* began: one host that ended is never lost.
Raise ==
    /\ status = "open" /\ size # 0
    /\ Running = {}
    /\ size > 1 \/ Todo # {}
    /\ status' = "raised"
    /\ UNCHANGED <<size, host>>

\* Only what has not begun can be dropped.
Drop ==
    /\ status = "open" /\ size # 0
    /\ Todo = Hosts
    /\ status' = "dropped"
    /\ UNCHANGED <<size, host>>

Next ==
    \/ Ask \/ Done \/ Raise \/ Drop
    \/ \E h \in HostIds : Begin(h) \/ End(h)

Spec == Init /\ [][Next]_vars
=============================================================================
