------------------------------ MODULE Dispatch ------------------------------
(***************************************************************************)
(* _call_tool (src/linux_info_mcp/server.py): several tool calls on one    *)
(* event loop.  A call validates its arguments, hands its handler - or a   *)
(* fan-out of it over several hosts - to the default executor              *)
(* (asyncio.to_thread), and when the executor is done classifies, logs and *)
(* answers.  Between its one await and the rest anything may happen to the *)
(* other calls, and the client may cancel.                                 *)
(*                                                                         *)
(* Each call is a task with a context of its own; the request id of log.py *)
(* is a variable of that context, copied into the executor's thread and    *)
(* again for each host.  A call stands for its own request id.             *)
(***************************************************************************)
EXTENDS Integers, Sequences, FiniteSets

CONSTANTS Calls,        \* the calls clients make
          NoCall,       \* the request id of code outside any call
          Slots,        \* threads of the default executor
          Parallelism,  \* parallelism(), the workers of one fan-out
          MaxHosts      \* effective_max_hosts()

ASSUME CallsAssumption == IsFiniteSet(Calls) /\ NoCall \notin Calls
ASSUME LimitsAssumption ==
    /\ Slots \in Nat \ {0}
    /\ Parallelism \in Nat \ {0}
    /\ MaxHosts \in Nat \ {0}

VARIABLES
    kind,    \* what a call asks: "none" until it comes, then one of Kinds
    size,    \* number of its hosts
    call,    \* the coroutine: "new", "waiting", then one of Over
    job,     \* its work item: "none", "queued", "dropped", "running", "done",
             \* "raised" by a host, or "starved" of a thread
    queue,   \* the executor's queue
    threads, \* the executor's threads
    host,    \* [Calls -> [HostIds -> "todo", "running", how the handler ended, or
             \* "unentered": its context could not be entered]]
    reached, \* [Calls -> hosts whose handler was entered]
    ctx,     \* [Calls -> the request ids its contexts hold]
    tags,    \* <<whose code wrote a line, the request id the line carries>>
    logged   \* [Calls -> its tool_call lines]

vars == <<kind, size, call, job, queue, threads, host, reached, ctx, tags, logged>>

Kinds   == {"unknown", "invalid", "single", "multi"}
HostIds == 1..MaxHosts
Endings == {"ok", "nonzero", "value_error", "exception"}
Over    == {"answered", "failed", "cancelled"}
Ids     == Calls \cup {NoCall}

Hosts(c) == 1..size[c]
Running(c) == {h \in Hosts(c) : host[c][h] = "running"}
Todo(c) == {h \in Hosts(c) : host[c][h] = "todo"}
Busy == {c \in Calls : job[c] = "running"}

Init ==
    /\ kind = [c \in Calls |-> "none"]
    /\ size = [c \in Calls |-> 0]
    /\ call = [c \in Calls |-> "new"]
    /\ job = [c \in Calls |-> "none"]
    /\ queue = <<>>
    /\ threads = 0
    /\ host = [c \in Calls |-> [h \in HostIds |-> "todo"]]
    /\ reached = [c \in Calls |-> {}]
    /\ ctx = [c \in Calls |-> [task |-> NoCall, thread |-> NoCall,
                               worker |-> [h \in HostIds |-> NoCall]]]
    /\ tags = {}
    /\ logged = [c \in Calls |-> <<>>]

-----------------------------------------------------------------------------
(* The request id.                                                         *)

\* Mutant: one variable for all, not one per context.
EnteredShared(c) == [d \in Calls |-> [ctx[d] EXCEPT !.task = c]]

\* set_call_ctx
Entered(c) == [ctx EXCEPT ![c].task = c]

\* reset_call_ctx, in x
Reset(x, c) == [x EXCEPT ![c].task = NoCall]

\* Mutant: copied once, before the loop.
HomeOfAll(c, h) == <<c, 0>>

\* The context object a host's handler is run in: copy_context() per host.
Home(c, h) == <<c, h>>

\* What a tool_call line says; error is there unless error_msg is None.
Line(o) == [outcome |-> o, error |-> o \notin {"ok", "nonzero"}]

-----------------------------------------------------------------------------
(* The event loop.                                                         *)

\* An unknown tool, or arguments that do not validate: answered at once.
Refuse(c) ==
    /\ call[c] = "new"
    /\ \E k \in {"unknown", "invalid"} :
        /\ kind' = [kind EXCEPT ![c] = k]
        /\ logged' = [logged EXCEPT ![c] = Append(@, Line(
               IF k = "unknown" THEN "unknown_tool" ELSE "validation_error"))]
    /\ call' = [call EXCEPT ![c] = "answered"]
    /\ tags' = tags \cup {<<c, Entered(c)[c].task>>}
    /\ ctx' = Reset(Entered(c), c)
    /\ UNCHANGED <<size, job, queue, threads, host, reached>>

\* to_thread: the context is copied and the work item queued.
Enqueue(c, k, n) ==
    /\ call[c] = "new"
    /\ k = "single" => n = 1
    /\ kind' = [kind EXCEPT ![c] = k]
    /\ size' = [size EXCEPT ![c] = n]
    /\ job' = [job EXCEPT ![c] = "queued"]
    /\ queue' = Append(queue, c)
    /\ tags' = tags \cup {<<c, Entered(c)[c].task>>}
    /\ UNCHANGED <<host, reached>>

\* Mutant: a new thread for every item.
ThreadsUnbounded == {threads + 1}

\* The executor starts a thread unless one is idle; one that has just
\* finished may not count as idle yet.
ThreadsAfterSubmit ==
    LET more == IF threads < Slots THEN threads + 1 ELSE threads
    IN IF threads > Cardinality(Busy) + Len(queue) THEN {threads, more} ELSE {more}

Await(c) ==
    /\ \E k \in {"single", "multi"}, n \in HostIds : Enqueue(c, k, n)
    /\ threads' \in ThreadsAfterSubmit
    /\ call' = [call EXCEPT ![c] = "waiting"]
    /\ ctx' = [Entered(c) EXCEPT ![c].thread = Entered(c)[c].task]
    /\ UNCHANGED logged

\* The thread cannot be started: submit raises, with the item in the queue.
\* For one host this is a handler error; for several it escapes, unlogged.
SubmitFails(c) ==
    /\ threads < Slots
    /\ \E k \in {"single", "multi"}, n \in HostIds :
        /\ Enqueue(c, k, n)
        /\ call' = [call EXCEPT ![c] = IF k = "single" THEN "answered" ELSE "failed"]
        /\ logged' = IF k = "single"
                     THEN [logged EXCEPT ![c] = Append(@, Line("handler_error"))]
                     ELSE logged
    /\ ctx' = Reset([Entered(c) EXCEPT ![c].thread = Entered(c)[c].task], c)
    /\ UNCHANGED threads

Failures(c) == {h \in Hosts(c) : host[c][h] # "ok"}

\* Mutant: judged by the first host.
OutcomeOfFirst(c) ==
    IF kind[c] = "multi"
    THEN IF host[c][1] = "ok" THEN "ok" ELSE "partial"
    ELSE CASE host[c][1] = "value_error" -> "validation_error"
           [] host[c][1] = "exception" -> "handler_error"
           [] OTHER -> host[c][1]

\* The outcome of a call whose work item is done.
Outcome(c) ==
    IF kind[c] = "multi"
    THEN IF Failures(c) = {} THEN "ok" ELSE "partial"
    ELSE CASE host[c][1] = "value_error" -> "validation_error"
           [] host[c][1] = "exception" -> "handler_error"
           [] OTHER -> host[c][1]

\* The await returns: log and answer.  What a fan-out raises is not caught.
Resume(c) ==
    /\ call[c] = "waiting" /\ job[c] \in {"done", "raised", "starved"}
    /\ IF job[c] = "done"
       THEN /\ call' = [call EXCEPT ![c] = "answered"]
            /\ logged' = [logged EXCEPT ![c] = Append(@, Line(Outcome(c)))]
            /\ tags' = tags \cup {<<c, ctx[c].task>>}
       ELSE /\ call' = [call EXCEPT ![c] = "failed"]
            /\ UNCHANGED <<logged, tags>>
    /\ ctx' = Reset(ctx, c)
    /\ UNCHANGED <<kind, size, job, queue, threads, host, reached>>

\* Mutant: the slot of a cancelled call is taken to be free.
CancelFreesSlot(c) ==
    /\ call[c] = "waiting"
    /\ call' = [call EXCEPT ![c] = "cancelled"]
    /\ job' = [job EXCEPT ![c] = "dropped"]
    /\ ctx' = Reset(ctx, c)
    /\ UNCHANGED <<kind, size, queue, threads, host, reached, tags, logged>>

\* The client gives up: CancelledError at the await, which only the finally
\* sees.  A queued item is dropped, a running one goes on.
Cancel(c) ==
    /\ call[c] = "waiting"
    /\ call' = [call EXCEPT ![c] = "cancelled"]
    /\ job' = [job EXCEPT ![c] = IF @ = "queued" THEN "dropped" ELSE @]
    /\ ctx' = Reset(ctx, c)
    /\ UNCHANGED <<kind, size, queue, threads, host, reached, tags, logged>>

-----------------------------------------------------------------------------
(* The executor's threads and what they run.                               *)

\* Mutant: what was cancelled runs all the same.
StartAnyJob ==
    /\ queue # <<>> /\ Cardinality(Busy) < threads
    /\ job' = [job EXCEPT ![Head(queue)] = "running"]
    /\ queue' = Tail(queue)
    /\ UNCHANGED <<kind, size, call, threads, host, reached, ctx, tags, logged>>

\* A free thread takes the item that has waited longest; a dropped one is
\* only taken off the queue.
StartJob ==
    /\ queue # <<>> /\ Cardinality(Busy) < threads
    /\ job' = [job EXCEPT ![Head(queue)] = IF @ = "dropped" THEN @ ELSE "running"]
    /\ queue' = Tail(queue)
    /\ UNCHANGED <<kind, size, call, threads, host, reached, ctx, tags, logged>>

\* What copy_context() copies in the thread of the fan-out.
Copied(c) == ctx[c].thread

\* Mutant: workers of the executor that runs the fan-out itself.
WorkerOfExecutor(c) == Cardinality(Busy) < Slots

\* A fan-out has workers of its own (FanOut).
WorkerFree(c) == Cardinality(Running(c)) < Parallelism

\* A handler takes its turn.  A context object that is entered already cannot
\* be entered again: ctx.run raises instead of running the handler, outside of
\* the try that captures what a handler raises.
StartHandler(c, h) ==
    /\ job[c] = "running" /\ h \in Todo(c)
    /\ \A g \in Todo(c) : h <= g
    /\ WorkerFree(c)
    /\ IF \E g \in Running(c) : Home(c, g) = Home(c, h)
       THEN /\ host' = [host EXCEPT ![c][h] = "unentered"]
            /\ UNCHANGED <<reached, ctx, tags>>
       ELSE /\ host' = [host EXCEPT ![c][h] = "running"]
            /\ reached' = [reached EXCEPT ![c] = @ \cup {h}]
            /\ ctx' = [ctx EXCEPT ![c].worker[h] = Copied(c)]
            /\ tags' = tags \cup {<<c, ctx'[c].worker[h]>>}
    /\ UNCHANGED <<kind, size, call, job, queue, threads, logged>>

\* The handler ends, having logged its ssh calls.
EndHandler(c, h) ==
    /\ h \in Running(c)
    /\ \E e \in Endings : host' = [host EXCEPT ![c][h] = e]
    /\ tags' = tags \cup {<<c, ctx[c].worker[h]>>}
    /\ UNCHANGED <<kind, size, call, job, queue, threads, reached, ctx, logged>>

\* The work item is done when every handler is; fut.result() raises again what
\* was not captured.
EndJob(c) ==
    /\ job[c] = "running" /\ Todo(c) = {} /\ Running(c) = {}
    /\ job' = [job EXCEPT ![c] =
           IF \E h \in Hosts(c) : host[c][h] = "unentered" THEN "raised" ELSE "done"]
    /\ UNCHANGED <<kind, size, call, queue, threads, host, reached, ctx, tags, logged>>

\* A fan-out that could not start a worker raises, once its threads are done.
JobRaises(c) ==
    /\ job[c] = "running" /\ kind[c] = "multi" /\ Running(c) = {}
    /\ size[c] > 1 \/ Todo(c) # {}
    /\ job' = [job EXCEPT ![c] = "starved"]
    /\ UNCHANGED <<kind, size, call, queue, threads, host, reached, ctx, tags, logged>>

Client(c) == Refuse(c) \/ Await(c) \/ SubmitFails(c) \/ Cancel(c)
Thread(c) == EndJob(c) \/ \E h \in HostIds : StartHandler(c, h) \/ EndHandler(c, h)
Next == \/ StartJob
        \/ \E c \in Calls : Client(c) \/ Resume(c) \/ Thread(c) \/ JobRaises(c)

\* The loop and the threads run; handlers end (RunSsh says when ssh does).
\* Nobody has to call, or to cancel.
Spec ==
    /\ Init /\ [][Next]_vars
    /\ WF_vars(StartJob)
    /\ \A c \in Calls :
        /\ WF_vars(Resume(c)) /\ WF_vars(EndJob(c))
        /\ \A h \in HostIds : WF_vars(StartHandler(c, h)) /\ WF_vars(EndHandler(c, h))

-----------------------------------------------------------------------------
(* What the server promises.                                               *)

\* Every variable keeps its kind of value; a call logs one line at most.
Lines == {Line(o) : o \in {"ok", "nonzero", "partial", "validation_error",
                           "unknown_tool", "handler_error"}}
TypeOK ==
    /\ kind \in [Calls -> Kinds \cup {"none"}]
    /\ size \in [Calls -> 0..MaxHosts]
    /\ call \in [Calls -> Over \cup {"new", "waiting"}]
    /\ job \in [Calls -> {"none", "queued", "dropped", "running",
                      "done", "raised", "starved"}]
    /\ queue \in Seq(Calls)
    /\ threads \in 0..Slots
    /\ host \in [Calls -> [HostIds -> {"todo", "running", "unentered"} \cup Endings]]
    /\ reached \in [Calls -> SUBSET HostIds]
    /\ ctx \in [Calls -> [task : Ids, thread : Ids, worker : [HostIds -> Ids]]]
    /\ tags \in SUBSET (Calls \X Ids)
    /\ logged \in [Calls -> Seq(Lines)]

\* Every line logged on behalf of a call carries that call's request id,
\* whatever the other calls do meanwhile - also the lines of a thread that
\* goes on after its call was cancelled (log.py:13-41, server.py:246-247).
OwnRequestId == \A t \in tags : t[1] = t[2]

\* A call logs its tool_call line exactly if and when it answers, once, and
\* the line tells what became of all of its hosts (server.py:309-345).
LoggedTruth ==
    \A c \in Calls :
        IF call[c] # "answered" THEN logged[c] = <<>>
        ELSE /\ Len(logged[c]) = 1
             /\ LET o == logged[c][1].outcome IN
                /\ kind[c] = "multi" =>
                       (o = "partial" <=> \E h \in Hosts(c) : host[c][h] # "ok")
                /\ kind[c] = "single" => (o = "ok" => host[c][1] = "ok")

\* A call fails as a whole only where a thread could not be started: in what
\* order its hosts overlap, and how their handlers end, never takes the other
\* hosts' results with it (server.py:225, 246-251).
NoHostFailsTheCall ==
    \A c \in Calls : call[c] = "failed" => job[c] # "raised"

\* Cancelled calls included, no more calls' handlers run than the executor has
\* threads, and no more handlers of one call than it may have workers
\* (server.py:241-243, 300-314).
BoundedHandlers ==
    /\ Cardinality(Busy) <= threads
    /\ \A c \in Calls : /\ Cardinality(Running(c)) <= Parallelism
                        /\ Running(c) # {} => c \in Busy

\* A call that is cancelled before its turn never reaches a host
\* (server.py:300-314).
DroppedNeverRuns ==
    [][\A c \in Calls : job[c] = "dropped" =>
           job'[c] = "dropped" /\ reached'[c] = {}]_vars

\* The work of a call, as the promise of HostCalls tells it.
Status(c) == CASE job[c] \in {"done", "dropped"} -> job[c]
               [] job[c] \in {"raised", "starved"} -> "raised"
               [] OTHER -> "open"
Promise(c) == INSTANCE HostCalls WITH
    size <- size[c], status <- Status(c), host <- host[c]

\* Whatever the other calls and the clients do, the work of each call keeps the
\* promise that its fan-out alone keeps: cancelled before its turn it never
\* reaches a host, later it goes on to its end (server.py:239-251, 300-314).
HostCallsKept ==
    /\ \A c \in Calls : Promise(c)!Init
    /\ [][\A c \in Calls : Promise(c)!Next \/ UNCHANGED Promise(c)!vars]_vars

\* A call that waits is answered or fails, if it is not cancelled: calls that
\* hold all of the executor's threads, each waiting for hosts of its own, do
\* not wait for each other (server.py:243, 300).
CallsEnd == \A c \in Calls : call[c] = "waiting" ~> call[c] \in Over

-----------------------------------------------------------------------------
(* Why: an inductive invariant.                                            *)

\* Each context that code of a call runs in holds the id of that call.
Context(c) ==
    /\ call[c] = "waiting" => ctx[c].task = c
    /\ job[c] # "none" => ctx[c].thread = c
    /\ \A h \in HostIds : host[c][h] = "running" => ctx[c].worker[h] = c

\* A work item and its handlers go through their stages together.
Stage(c) ==
    /\ kind[c] \in {"single", "multi"} <=> job[c] # "none"
    /\ kind[c] = "single" => size[c] = 1
    /\ call[c] = "new" => job[c] = "none"
    /\ call[c] = "waiting" => job[c] \notin {"none", "dropped"}
    /\ job[c] = "dropped" => call[c] = "cancelled"
    /\ job[c] \in {"none", "queued", "dropped"} =>
           \A h \in HostIds : host[c][h] = "todo"
    /\ job[c] # "raised" /\ \A h \in HostIds : host[c][h] # "unentered"
    /\ job[c] = "done" => \A h \in Hosts(c) : host[c][h] \in Endings
    /\ \A h \in HostIds : host[c][h] = "running" => job[c] = "running" /\ h \in Hosts(c)
    /\ reached[c] = {h \in Hosts(c) : host[c][h] # "todo"}

\* What waits in the queue waits there once.
Waiting ==
    /\ \A i \in 1..Len(queue) : job[queue[i]] \in {"queued", "dropped"}
    /\ \A i, j \in 1..Len(queue) : queue[i] = queue[j] => i = j

\* The line of a call that answered, by the way it went.
Report(c) ==
    IF call[c] # "answered" THEN logged[c] = <<>>
    ELSE \/ job[c] = "none" /\ logged[c] \in
                {<<Line("unknown_tool")>>, <<Line("validation_error")>>}
         \/ kind[c] = "single" /\ logged[c] = <<Line("handler_error")>>
         \/ job[c] = "done" /\ logged[c] = <<Line(Outcome(c))>>

IInv == /\ TypeOK /\ OwnRequestId /\ Waiting
        /\ \A c \in Calls : Context(c) /\ Stage(c) /\ Report(c)
=============================================================================
