------------------------------- MODULE FanOut -------------------------------
(***************************************************************************)
(* _run_multi_host (src/linux_info_mcp/server.py): one handler run on N    *)
(* hosts by a bounded pool of worker threads.  The calling thread submits  *)
(* one task per host, collects the futures in the order they finish, and   *)
(* leaves the pool only when its threads have ended.                       *)
(*                                                                         *)
(* A host is its position in the deduplicated list; what a handler returns *)
(* is one of a few kinds.                                                  *)
(***************************************************************************)
EXTENDS Integers, FiniteSets

CONSTANTS N,            \* number of hosts, at least one (validate_host_list)
          Parallelism   \* parallelism(): LINUX_INFO_PARALLELISM, clamped

ASSUME SizesAssumption ==
    /\ N \in Nat \ {0}
    /\ Parallelism \in Nat \ {0}

Hosts == 1..N

\* How a handler ends: a dict with exit status 0, one with another status,
\* something else than a dict, a ValueError, any other exception.
Endings == {"ok", "nonzero", "non_dict", "value_error", "exception"}

VARIABLES
    pc,         \* the calling thread: "submit", "collect", "leave", "returned", "raised"
    submitted,  \* tasks submitted: hosts 1..submitted
    fut,        \* [Hosts -> "none", "queued", "running", "done"]
    ending,     \* [Hosts -> Endings or "none"]: how the handler ended
    threads,    \* worker threads started
    yielded,    \* hosts whose future as_completed has yielded
    results,    \* [Hosts -> an entry]
    failing     \* TRUE once submit has raised

vars == <<pc, submitted, fut, ending, threads, yielded, results, failing>>

\* max(1, min(parallelism(), len(hosts)))
Workers == IF Parallelism <= N THEN Parallelism ELSE N

\* The {} every slot starts with.
Blank == [host |-> 0, error |-> FALSE, outcome |-> "none"]

\* _run_handler_for_host: what a host's slot holds for each ending.
Entry(h, e) ==
    [host    |-> h,
     error   |-> e \in {"value_error", "exception", "non_dict"},
     outcome |-> CASE e = "value_error" -> "validation_error"
                   [] e \in {"exception", "non_dict"} -> "handler_error"
                   [] OTHER -> e]

Queued  == {h \in Hosts : fut[h] = "queued"}
Running == {h \in Hosts : fut[h] = "running"}

Init ==
    /\ pc = "submit"
    /\ submitted = 0
    /\ fut = [h \in Hosts |-> "none"]
    /\ ending = [h \in Hosts |-> "none"]
    /\ threads = 0
    /\ yielded = {}
    /\ results = [h \in Hosts |-> Blank]
    /\ failing = FALSE

-----------------------------------------------------------------------------
(* The pool.                                                               *)

\* A submission starts a thread unless one is idle; a thread that has just
\* finished a task may not be counted as idle yet.
Threads(busy) ==
    LET more == IF threads < Workers THEN threads + 1 ELSE threads
    IN IF threads > busy THEN {threads, more} ELSE {more}

\* Mutant: a new thread for every task.
SubmitUnbounded ==
    /\ pc = "submit" /\ submitted < N
    /\ submitted' = submitted + 1
    /\ fut' = [fut EXCEPT ![submitted + 1] = "queued"]
    /\ threads' = threads + 1
    /\ pc' = IF submitted + 1 = N THEN "collect" ELSE "submit"
    /\ UNCHANGED <<ending, yielded, results, failing>>

Submit ==
    /\ pc = "submit" /\ submitted < N
    /\ submitted' = submitted + 1
    /\ fut' = [fut EXCEPT ![submitted + 1] = "queued"]
    /\ threads' \in Threads(Cardinality(Running \cup Queued))
    /\ pc' = IF submitted + 1 = N THEN "collect" ELSE "submit"
    /\ UNCHANGED <<ending, yielded, results, failing>>

\* The thread a submission needs cannot be started: submit raises, with its
\* task already in the queue, and the with statement is left.
SubmitFails ==
    /\ pc = "submit" /\ submitted < N /\ threads < Workers
    /\ submitted' = submitted + 1
    /\ fut' = [fut EXCEPT ![submitted + 1] = "queued"]
    /\ failing' = TRUE
    /\ pc' = "leave"
    /\ UNCHANGED <<ending, threads, yielded, results>>

\* A free worker takes the task that has waited longest.
StartTask(h) ==
    /\ fut[h] = "queued"
    /\ \A g \in Queued : h <= g
    /\ Cardinality(Running) < threads
    /\ fut' = [fut EXCEPT ![h] = "running"]
    /\ UNCHANGED <<pc, submitted, ending, threads, yielded, results, failing>>

\* ctx.run(_run_handler_for_host, ...): the handler ends, one way or another.
EndTask(h) ==
    /\ fut[h] = "running"
    /\ fut' = [fut EXCEPT ![h] = "done"]
    /\ \E e \in Endings : ending' = [ending EXCEPT ![h] = e]
    /\ UNCHANGED <<pc, submitted, threads, yielded, results, failing>>

-----------------------------------------------------------------------------
(* The calling thread.                                                     *)

\* Mutants: slots filled in the order of completion; the loop left as soon as
\* a failed host is met.
CollectInOrderOfEnd(h) ==
    /\ pc = "collect"
    /\ fut[h] = "done" /\ h \notin yielded
    /\ results' = [results EXCEPT ![Cardinality(yielded) + 1] = Entry(h, ending[h])]
    /\ yielded' = yielded \cup {h}
    /\ pc' = IF yielded' = Hosts THEN "leave" ELSE pc
    /\ UNCHANGED <<submitted, fut, ending, threads, failing>>
CollectUntilFailure(h) ==
    /\ pc = "collect"
    /\ fut[h] = "done" /\ h \notin yielded
    /\ results' = [results EXCEPT ![h] = Entry(h, ending[h])]
    /\ yielded' = yielded \cup {h}
    /\ pc' = IF yielded' = Hosts \/ Entry(h, ending[h]).error THEN "leave" ELSE pc
    /\ UNCHANGED <<submitted, fut, ending, threads, failing>>

\* for fut in as_completed(fut_to_idx): results[fut_to_idx[fut]] = fut.result()
Collect(h) ==
    /\ pc = "collect"
    /\ fut[h] = "done" /\ h \notin yielded
    /\ results' = [results EXCEPT ![h] = Entry(h, ending[h])]
    /\ yielded' = yielded \cup {h}
    /\ pc' = IF yielded' = Hosts THEN "leave" ELSE pc
    /\ UNCHANGED <<submitted, fut, ending, threads, failing>>

\* Mutant: what is waited for is the tasks, not the threads.
NoTaskLeft == Queued = {} /\ Running = {}

\* Leaving the with statement: shutdown(wait=True) joins the threads, which
\* empty the queue first.  With no thread at all there is nobody to wait for.
Idle == threads = 0 \/ (Queued = {} /\ Running = {})

\* Mutant: shutdown(wait=False).
LeaveAtOnce ==
    /\ pc = "leave"
    /\ pc' = IF failing THEN "raised" ELSE "returned"
    /\ UNCHANGED <<submitted, fut, ending, threads, yielded, results, failing>>

Leave ==
    /\ pc = "leave" /\ Idle
    /\ pc' = IF failing THEN "raised" ELSE "returned"
    /\ UNCHANGED <<submitted, fut, ending, threads, yielded, results, failing>>

Ended == pc \in {"returned", "raised"}

\* _multi_host_failed: entries with an error, or with a status other than 0.
FailedCount ==
    Cardinality({h \in Hosts : results[h].error \/ results[h].outcome = "nonzero"})

Caller == Submit \/ SubmitFails \/ (\E h \in Hosts : Collect(h)) \/ Leave
Pool == \E h \in Hosts : StartTask(h) \/ EndTask(h)
Next == Caller \/ Pool

\* Threads that can run do; handlers end (run_ssh's own matter: RunSsh).
Spec == Init /\ [][Next]_vars /\ WF_vars(Caller)
             /\ \A h \in Hosts : WF_vars(StartTask(h)) /\ WF_vars(EndTask(h))

-----------------------------------------------------------------------------
(* What a fan-out promises.                                                *)

\* Every variable keeps its kind of value.
EntryType == [host : 0..N, error : BOOLEAN,
              outcome : {"none", "ok", "nonzero", "validation_error", "handler_error"}]
TypeOK ==
    /\ pc \in {"submit", "collect", "leave", "returned", "raised"}
    /\ submitted \in 0..N
    /\ fut \in [Hosts -> {"none", "queued", "running", "done"}]
    /\ ending \in [Hosts -> Endings \cup {"none"}]
    /\ threads \in 0..Workers
    /\ yielded \in SUBSET Hosts
    /\ results \in [Hosts -> EntryType]
    /\ failing \in BOOLEAN

\* An answer has, in the slot of every host, what became of that very host,
\* whatever the order in which they ended and whichever of them failed
\* (server.py:242-251).
OwnSlot ==
    pc = "returned" => \A h \in Hosts : results[h] = Entry(h, ending[h])

\* Never more handlers run at once than there are hosts or workers allowed
\* (server.py:241-243).
BoundedWorkers ==
    /\ Cardinality(Running) <= Parallelism
    /\ Cardinality(Running) <= N

\* No handler is still running, or waiting to run, when the call answers or
\* raises - but one whose worker could never be started (server.py:243, 251).
NothingRunsAfter ==
    Ended => /\ Running = {}
             /\ Queued # {} => pc = "raised" /\ threads = 0

\* The number of failures that is reported is that of the handlers that did
\* not end well: a failed host is neither hidden nor counted twice
\* (server.py:254-264).
FailuresCounted ==
    pc = "returned" => FailedCount = Cardinality({h \in Hosts : ending[h] # "ok"})

\* What has become of a host, as the promise of HostCalls tells it.
Seen(h) ==
    CASE fut[h] = "running" -> "running"
      [] fut[h] = "done"    -> IF ending[h] = "non_dict" THEN "exception" ELSE ending[h]
      [] OTHER              -> "todo"
Status ==
    CASE pc = "returned" -> "done"
      [] pc = "raised"   -> "raised"
      [] OTHER           -> "open"
Promise == INSTANCE HostCalls WITH
    MaxHosts <- N, size <- N, status <- Status, host <- [h \in Hosts |-> Seen(h)]

\* A fan-out begins its handlers in the order of the hosts, a bounded number at
\* a time, returns when all have ended, raises when none is running, and no
\* handler runs after either (server.py:239-251).
ImplementsHostCalls == Promise!Spec

\* If handlers end, the fan-out ends, also when a worker cannot be started
\* (server.py:243-251).
FanOutEnds == <>Ended
-----------------------------------------------------------------------------
(* Why: an inductive invariant.                                            *)

\* Tasks are submitted in order of the hosts, and end once.
Tasks ==
    /\ \A h \in Hosts : fut[h] = "none" <=> h > submitted
    /\ \A h \in Hosts : fut[h] = "done" <=> ending[h] # "none"

\* Each future that was yielded is in its own slot.
Slots == \A h \in yielded : fut[h] = "done" /\ results[h] = Entry(h, ending[h])

Phases ==
    /\ pc = "submit" => submitted < N
    /\ failing <=> pc \in {"leave", "raised"} /\ yielded = {}
    /\ pc \in {"leave", "returned"} /\ ~failing => yielded = Hosts
    /\ pc \in {"submit", "raised"} => yielded = {}
    /\ Ended => Idle

\* A task runs on a thread of its own.
OnThreads == Cardinality(Running) <= threads

IInv == TypeOK /\ Tasks /\ Slots /\ Phases /\ OnThreads
=============================================================================
