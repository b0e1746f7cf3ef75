---------------------------- MODULE FanOutProofs ----------------------------
(***************************************************************************)
(* Theorems about FanOut, for every number of hosts and every degree of    *)
(* parallelism.                                                            *)
(***************************************************************************)
EXTENDS FanOut, FiniteSetTheorems, TLAPS

\* The pool has at least one worker, and no more than hosts or than allowed.
LEMMA WorkersInRange ==
    /\ Workers \in 1..N
    /\ Workers <= Parallelism
  BY SizesAssumption DEF Workers

LEMMA EntryTyped ==
    ASSUME NEW h \in Hosts, NEW e \in Endings
    PROVE  Entry(h, e) \in EntryType
  BY SizesAssumption DEF Entry, EntryType, Endings, Hosts

\* A submission keeps the threads within the workers, and loses none.
LEMMA ThreadsInRange ==
    ASSUME threads \in 0..Workers, NEW busy, NEW n \in Threads(busy)
    PROVE  n \in 0..Workers /\ threads <= n
  BY WorkersInRange DEF Threads

\* Sets of hosts are finite.
LEMMA HostsFinite ==
    ASSUME NEW S \in SUBSET Hosts
    PROVE  IsFiniteSet(S) /\ Cardinality(S) \in Nat /\ Cardinality(S) <= N
  <1>1. IsFiniteSet(Hosts) /\ Cardinality(Hosts) = N
    BY FS_Interval, SizesAssumption DEF Hosts
  <1>. QED  BY <1>1, FS_Subset, FS_CardinalityType

-----------------------------------------------------------------------------

LEMMA IInvInit == Init => IInv
  <1>. SUFFICES ASSUME Init PROVE IInv
    OBVIOUS
  <1>1. TypeOK
    <2>1. Blank \in EntryType
      BY SizesAssumption DEF Blank, EntryType
    <2>2. results \in [Hosts -> EntryType]
      BY <2>1 DEF Init
    <2>3. 0 \in 0..N /\ 0 \in 0..Workers
      BY WorkersInRange, SizesAssumption
    <2>4. /\ fut \in [Hosts -> {"none", "queued", "running", "done"}]
          /\ ending \in [Hosts -> Endings \cup {"none"}]
      BY DEF Init
    <2>. QED  BY <2>2, <2>3, <2>4 DEF Init, TypeOK
  <1>2. Tasks /\ Slots
    BY DEF Init, Tasks, Slots, Hosts
  <1>3. Phases
    BY SizesAssumption DEF Init, Phases, Ended
  <1>4. Running = {}
    BY DEF Init, Running
  <1>5. OnThreads
    BY <1>4, FS_EmptySet DEF Init, OnThreads
  <1>. QED  BY <1>1, <1>2, <1>3, <1>5 DEF IInv

LEMMA TypeStep == TypeOK /\ [Next]_vars => TypeOK'
  <1>. SUFFICES ASSUME TypeOK, [Next]_vars PROVE TypeOK'
    OBVIOUS
  <1>. USE DEF TypeOK
  <1>1. CASE Submit
    <2>1. submitted + 1 \in 0..N /\ submitted + 1 \in Hosts
      BY <1>1, SizesAssumption DEF Submit, Hosts
    <2>2. threads' \in 0..Workers
      BY <1>1, ThreadsInRange DEF Submit
    <2>. QED  BY <1>1, <2>1, <2>2 DEF Submit
  <1>2. CASE SubmitFails
    <2>1. submitted + 1 \in 0..N /\ submitted + 1 \in Hosts
      BY <1>2, SizesAssumption DEF SubmitFails, Hosts
    <2>. QED  BY <1>2, <2>1 DEF SubmitFails
  <1>3. ASSUME NEW h \in Hosts, Collect(h) PROVE TypeOK'
    <2>1. Entry(h, ending[h]) \in EntryType
      BY <1>3, SizesAssumption DEF Entry, EntryType, Endings, Hosts
    <2>. QED  BY <1>3, <2>1 DEF Collect
  <1>4. CASE Leave
    BY <1>4 DEF Leave
  <1>5. ASSUME NEW h \in Hosts, StartTask(h) PROVE TypeOK'
    BY <1>5 DEF StartTask
  <1>6. ASSUME NEW h \in Hosts, EndTask(h) PROVE TypeOK'
    BY <1>6 DEF EndTask
  <1>7. CASE UNCHANGED vars
    BY <1>7 DEF vars
  <1>. QED
    BY <1>1, <1>2, <1>3, <1>4, <1>5, <1>6, <1>7 DEF Next, Caller, Pool

\* Tasks, slots and phases.
LEMMA OrderStep == IInv /\ [Next]_vars => Tasks' /\ Slots'
  <1>. SUFFICES ASSUME IInv, [Next]_vars PROVE Tasks' /\ Slots'
    OBVIOUS
  <1>. USE SizesAssumption DEF IInv, TypeOK, Tasks, Slots, Hosts
  <1>1. CASE Submit
    BY <1>1 DEF Submit
  <1>2. CASE SubmitFails
    BY <1>2 DEF SubmitFails
  <1>3. ASSUME NEW h \in Hosts, Collect(h) PROVE Tasks' /\ Slots'
    BY <1>3 DEF Collect
  <1>4. CASE Leave
    BY <1>4 DEF Leave
  <1>5. ASSUME NEW h \in Hosts, StartTask(h) PROVE Tasks' /\ Slots'
    BY <1>5 DEF StartTask
  <1>6. ASSUME NEW h \in Hosts, EndTask(h) PROVE Tasks' /\ Slots'
    BY <1>6 DEF EndTask, Endings
  <1>7. CASE UNCHANGED vars
    BY <1>7 DEF vars
  <1>. QED
    BY <1>1, <1>2, <1>3, <1>4, <1>5, <1>6, <1>7 DEF Next, Caller, Pool

LEMMA PhaseStep == IInv /\ [Next]_vars => Phases'
  <1>. SUFFICES ASSUME IInv, [Next]_vars PROVE Phases'
    OBVIOUS
  <1>. USE SizesAssumption DEF IInv, TypeOK, Phases, Ended
  <1>1. CASE Submit
    BY <1>1 DEF Submit
  <1>2. CASE SubmitFails
    BY <1>2 DEF SubmitFails
  <1>3. ASSUME NEW h \in Hosts, Collect(h) PROVE Phases'
    BY <1>3 DEF Collect
  <1>4. CASE Leave
    BY <1>4 DEF Leave, Idle, Queued, Running
  <1>5. ASSUME NEW h \in Hosts, StartTask(h) PROVE Phases'
    <2>1. threads # 0
      <3>1. Cardinality(Running) \in Nat
        BY HostsFinite DEF Running
      <3>. QED  BY <1>5, <3>1 DEF StartTask
    <2>2. h \in Queued
      BY <1>5 DEF StartTask, Queued
    <2>3. ~Ended
      BY <2>1, <2>2 DEF Idle
    <2>. QED  BY <1>5, <2>3 DEF StartTask
  <1>6. ASSUME NEW h \in Hosts, EndTask(h) PROVE Phases'
    <2>1. h \in Running
      BY <1>6 DEF EndTask, Running
    <2>2. threads # 0
      <3>1. Cardinality(Running) # 0
        BY <2>1, HostsFinite, FS_EmptySet DEF Running
      <3>2. Cardinality(Running) \in Nat
        BY HostsFinite DEF Running
      <3>. QED  BY <3>1, <3>2 DEF OnThreads
    <2>3. ~Ended
      BY <2>1, <2>2 DEF Idle
    <2>. QED  BY <1>6, <2>3 DEF EndTask
  <1>7. CASE UNCHANGED vars
    BY <1>7 DEF vars, Idle, Queued, Running
  <1>. QED
    BY <1>1, <1>2, <1>3, <1>4, <1>5, <1>6, <1>7 DEF Next, Caller, Pool

\* Threads only come to be, and a task takes one that is free.
LEMMA ThreadStep == IInv /\ [Next]_vars => OnThreads'
  <1>. SUFFICES ASSUME IInv, [Next]_vars PROVE OnThreads'
    OBVIOUS
  <1>0. /\ IsFiniteSet(Running)
        /\ Cardinality(Running) \in Nat
        /\ threads \in Int
        /\ Cardinality(Running) <= threads
    BY HostsFinite DEF IInv, TypeOK, OnThreads, Running
  <1>1. CASE Submit
    <2>1. Running' = Running
      BY <1>1, SizesAssumption DEF Submit, Running, Hosts, IInv, TypeOK, Tasks
    <2>2. threads' \in Int /\ threads <= threads'
      BY <1>1, ThreadsInRange DEF Submit, IInv, TypeOK
    <2>. QED  BY <1>0, <2>1, <2>2 DEF OnThreads
  <1>2. CASE SubmitFails
    <2>1. Running' = Running
      BY <1>2, SizesAssumption
         DEF SubmitFails, Running, Hosts, IInv, TypeOK, Tasks
    <2>. QED  BY <1>0, <1>2, <2>1 DEF SubmitFails, OnThreads
  <1>3. ASSUME NEW h \in Hosts, Collect(h) PROVE OnThreads'
    BY <1>0, <1>3 DEF Collect, Running, OnThreads
  <1>4. CASE Leave
    BY <1>0, <1>4 DEF Leave, Running, OnThreads
  <1>5. ASSUME NEW h \in Hosts, StartTask(h) PROVE OnThreads'
    <2>1. Running' = Running \cup {h} /\ h \notin Running
      BY <1>5 DEF StartTask, Running, IInv, TypeOK
    <2>2. Cardinality(Running') = Cardinality(Running) + 1
      BY <1>0, <2>1, FS_AddElement
    <2>. QED  BY <1>0, <1>5, <2>2 DEF StartTask, OnThreads
  <1>6. ASSUME NEW h \in Hosts, EndTask(h) PROVE OnThreads'
    <2>1. Running' = Running \ {h} /\ h \in Running
      BY <1>6 DEF EndTask, Running, IInv, TypeOK
    <2>2. Cardinality(Running') = Cardinality(Running) - 1
      BY <1>0, <2>1, FS_RemoveElement
    <2>. QED  BY <1>0, <1>6, <2>2 DEF EndTask, OnThreads
  <1>7. CASE UNCHANGED vars
    BY <1>0, <1>7 DEF vars, Running, OnThreads
  <1>. QED
    BY <1>1, <1>2, <1>3, <1>4, <1>5, <1>6, <1>7 DEF Next, Caller, Pool

\* Tasks, slots, phases and threads are related as IInv says in every
\* reachable state (server.py:239-251).
THEOREM IInvHolds == Spec => []IInv
  <1>1. IInv /\ [Next]_vars => IInv'
    BY TypeStep, OrderStep, PhaseStep, ThreadStep DEF IInv
  <1>. QED  BY IInvInit, <1>1, PTL DEF Spec

-----------------------------------------------------------------------------
(* What follows from it.                                                   *)

\* For any number of hosts and workers, every slot, future and thread count
\* keeps its kind of value (server.py:239-251).
THEOREM TypeCorrect == Spec => []TypeOK
  <1>1. IInv => TypeOK
    BY DEF IInv
  <1>. QED  BY <1>1, IInvHolds, PTL

\* For any number of hosts and workers, and in whatever order the handlers
\* end, each host's slot holds what became of that host (server.py:242-251).
THEOREM SlotsAreOwn == Spec => []OwnSlot
  <1>1. IInv => OwnSlot
    BY DEF IInv, OwnSlot, Phases, Slots
  <1>. QED  BY <1>1, IInvHolds, PTL

\* No more handlers run at once than the configured parallelism, nor than
\* there are hosts (server.py:241-243).
THEOREM WorkersAreBounded == Spec => []BoundedWorkers
  <1>1. IInv => BoundedWorkers
    <2>. SUFFICES ASSUME IInv PROVE BoundedWorkers
      OBVIOUS
    <2>1. Cardinality(Running) \in Nat
      BY HostsFinite DEF Running
    <2>. QED
      BY <2>1, WorkersInRange, SizesAssumption
         DEF IInv, TypeOK, OnThreads, BoundedWorkers
  <1>. QED  BY <1>1, IInvHolds, PTL

\* Nothing is still running when the call answers (server.py:243, 251).
THEOREM NothingIsLeft == Spec => []NothingRunsAfter
  <1>1. IInv => NothingRunsAfter
    <2>. SUFFICES ASSUME IInv, Ended PROVE NothingRunsAfter
      BY DEF NothingRunsAfter
    <2>1. CASE threads = 0
      <3>1. Running = {}
        <4>1. Cardinality(Running) = 0
          BY <2>1, HostsFinite DEF IInv, OnThreads, Running
        <4>. QED  BY <4>1, HostsFinite, FS_EmptySet DEF Running
      <3>2. CASE pc = "returned"
        <4>1. ~failing
          BY <3>2 DEF IInv, Phases
        <4>2. yielded = Hosts
          BY <3>2, <4>1 DEF IInv, Phases
        <4>3. \A h \in Hosts : fut[h] = "done"
          BY <4>2 DEF IInv, Slots
        <4>. QED  BY <3>1, <4>3 DEF NothingRunsAfter, Queued
      <3>3. CASE pc = "raised"
        BY <2>1, <3>1, <3>3 DEF NothingRunsAfter
      <3>. QED  BY <3>2, <3>3 DEF Ended
    <2>2. CASE threads # 0
      BY <2>2 DEF IInv, Phases, Idle, NothingRunsAfter
    <2>. QED  BY <2>1, <2>2
  <1>. QED  BY <1>1, IInvHolds, PTL

\* The failures reported are the handlers that did not end well
\* (server.py:254-264).
THEOREM FailuresAreCounted == Spec => []FailuresCounted
  <1>1. IInv => FailuresCounted
    <2>. SUFFICES ASSUME IInv, pc = "returned" PROVE FailuresCounted
      BY DEF FailuresCounted
    <2>1. ASSUME NEW h \in Hosts
          PROVE  /\ results[h] = Entry(h, ending[h])
                 /\ ending[h] \in Endings
      BY DEF IInv, Phases, Slots, Tasks, TypeOK, Endings
    <2>2. ASSUME NEW h \in Hosts
          PROVE  (results[h].error \/ results[h].outcome = "nonzero")
                   <=> ending[h] # "ok"
      <3>0. Entry(h, ending[h]).error
              <=> ending[h] \in {"value_error", "exception", "non_dict"}
        BY Zenon DEF Entry
      <3>1. results[h].error <=> ending[h] \in {"value_error", "exception", "non_dict"}
        BY <2>1, <3>0
      <3>2. CASE ending[h] \in {"value_error", "exception", "non_dict"}
        BY <3>1, <3>2
      <3>3. CASE ending[h] \in {"ok", "nonzero"}
        <4>0. Entry(h, ending[h]).outcome = ending[h]
          BY <3>3, Zenon DEF Entry
        <4>1. results[h].outcome = ending[h]
          BY <2>1, <4>0
        <4>2. ~results[h].error
          BY <3>1, <3>3
        <4>. QED  BY <3>3, <4>1, <4>2
      <3>. QED  BY <2>1, <3>2, <3>3 DEF Endings
    <2>. QED  BY <2>2 DEF FailuresCounted, FailedCount
  <1>. QED  BY <1>1, IInvHolds, PTL

-----------------------------------------------------------------------------
(* A fan-out keeps the promise of HostCalls.                               *)

\* A pool that could not start a thread lacks one, and without threads nothing
\* has run.
Unbegun ==
    /\ failing => threads < Workers
    /\ threads = 0 => \A h \in Hosts : fut[h] \in {"none", "queued"}

LEMMA UnbegunStep == IInv /\ Unbegun /\ [Next]_vars => Unbegun'
  <1>. SUFFICES ASSUME IInv, Unbegun, [Next]_vars PROVE Unbegun'
    OBVIOUS
  <1>0. Workers' = Workers /\ Workers \in Nat
    BY WorkersInRange, SizesAssumption DEF Workers
  <1>. USE <1>0 DEF IInv, TypeOK, Phases, Unbegun, Hosts
  <1>1. CASE Submit
    <2>1. threads' \in 0..Workers /\ threads <= threads'
      BY <1>1, ThreadsInRange DEF Submit
    <2>2. ~failing'
      BY <1>1 DEF Submit
    <2>3. ASSUME threads' = 0, NEW h \in Hosts PROVE fut'[h] \in {"none", "queued"}
      <3>1. threads = 0
        BY <2>1, <2>3
      <3>. QED  BY <1>1, <2>3, <3>1 DEF Submit
    <2>. QED  BY <2>2, <2>3
  <1>2. CASE SubmitFails
    BY <1>2 DEF SubmitFails
  <1>3. ASSUME NEW h \in Hosts, Collect(h) PROVE Unbegun'
    BY <1>3 DEF Collect
  <1>4. CASE Leave
    BY <1>4 DEF Leave
  <1>5. ASSUME NEW h \in Hosts, StartTask(h) PROVE Unbegun'
    <2>1. Cardinality(Running) \in Nat
      BY HostsFinite DEF Running
    <2>2. threads # 0
      BY <1>5, <2>1 DEF StartTask
    <2>. QED  BY <1>5, <2>2 DEF StartTask
  <1>6. ASSUME NEW h \in Hosts, EndTask(h) PROVE Unbegun'
    <2>1. threads # 0
      BY <1>6 DEF EndTask
    <2>. QED  BY <1>6, <2>1 DEF EndTask
  <1>7. CASE UNCHANGED vars
    BY <1>7 DEF vars
  <1>. QED
    BY <1>1, <1>2, <1>3, <1>4, <1>5, <1>6, <1>7 DEF Next, Caller, Pool

\* What is said to run does run, what has not begun is not submitted or waits.
LEMMA SeenKinds ==
    ASSUME IInv
    PROVE  /\ \A h \in Hosts : Seen(h) = "running" <=> fut[h] = "running"
           /\ \A h \in Hosts : Seen(h) = "todo" <=> fut[h] \in {"none", "queued"}
           /\ Promise!Running = Running
           /\ Promise!Todo = {h \in Hosts : fut[h] \in {"none", "queued"}}
  <1>1. ASSUME NEW h \in Hosts
        PROVE  /\ Seen(h) = "running" <=> fut[h] = "running"
               /\ Seen(h) = "todo" <=> fut[h] \in {"none", "queued"}
    BY DEF IInv, TypeOK, Tasks, Seen, Endings
  <1>. QED  BY <1>1 DEF Promise!Running, Promise!Todo, Promise!Hosts, Running, Hosts

LEMMA RefineInit == Init => Promise!Init
  BY SizesAssumption DEF Init, Promise!Init, Promise!HostIds, Status, Seen, Hosts

\* HostCalls counts as FanOut does.
LEMMA SameCount ==
    ASSUME NEW S
    PROVE  Promise!Cardinality(S) = Cardinality(S)
  BY Zenon DEF Promise!Cardinality, Cardinality

\* Changing the future of one host changes what is seen of that host.
LEMMA RefineStep == IInv /\ Unbegun /\ [Next]_vars => [Promise!Next]_(Promise!vars)
  <1>. SUFFICES ASSUME IInv, Unbegun, [Next]_vars PROVE [Promise!Next]_(Promise!vars)
    OBVIOUS
  <1>. DEFINE seen == [h \in Hosts |-> Seen(h)]
  <1>1. CASE Submit \/ SubmitFails
    <2>1. PICK s \in Hosts : fut[s] = "none" /\ fut' = [fut EXCEPT ![s] = "queued"] /\ ending' = ending
      BY <1>1, SizesAssumption DEF Submit, SubmitFails, Hosts, IInv, TypeOK, Tasks
    <2>2. \A h \in Hosts : Seen(h)' = Seen(h)
      BY <2>1 DEF Seen, IInv, TypeOK
    <2>3. Status' = Status
      BY <1>1 DEF Submit, SubmitFails, Status
    <2>. QED  BY <2>2, <2>3 DEF Promise!vars
  <1>2. ASSUME NEW h \in Hosts, Collect(h) PROVE UNCHANGED Promise!vars
    <2>1. Status' = Status
      BY <1>2 DEF Collect, Status
    <2>2. \A g \in Hosts : Seen(g)' = Seen(g)
      BY <1>2 DEF Collect, Seen
    <2>. QED  BY <2>1, <2>2 DEF Promise!vars
  <1>3. CASE Leave
    <2>1. \A g \in Hosts : Seen(g)' = Seen(g)
      BY <1>3 DEF Leave, Seen
    <2>2. Running = {}
      <3>1. CASE threads = 0
        BY <3>1 DEF Unbegun, Running
      <3>2. CASE threads # 0
        BY <1>3, <3>2 DEF Leave, Idle
      <3>. QED  BY <3>1, <3>2
    <2>3. seen' = seen /\ Status = "open" /\ Promise!Running = {}
      BY <1>3, <2>1, <2>2, SeenKinds DEF Leave, Status
    <2>4. CASE failing
      <3>1. Status' = "raised"
        BY <1>3, <2>4 DEF Leave, Status
      <3>2. N > 1 \/ Promise!Todo # {}
        <4>. SUFFICES ASSUME N = 1 PROVE Promise!Todo # {}
          BY SizesAssumption
        <4>1. Workers = 1
          BY SizesAssumption DEF Workers
        <4>2. threads = 0
          BY <2>4, <4>1 DEF Unbegun, IInv, TypeOK
        <4>3. 1 \in Hosts /\ fut[1] \in {"none", "queued"}
          BY <4>2 DEF Unbegun, Hosts
        <4>. QED  BY <4>3, SeenKinds
      <3>. QED
        BY <2>3, <3>1, <3>2, SizesAssumption DEF Promise!Next, Promise!Raise
    <2>5. CASE ~failing
      <3>1. Status' = "done"
        BY <1>3, <2>5 DEF Leave, Status
      <3>2. Promise!Todo = {}
        <4>1. yielded = Hosts
          BY <1>3, <2>5 DEF IInv, Phases, Leave
        <4>2. \A h \in Hosts : fut[h] = "done"
          BY <4>1 DEF IInv, Slots
        <4>. QED  BY <4>2, SeenKinds
      <3>. QED
        BY <2>3, <3>1, <3>2, SizesAssumption DEF Promise!Next, Promise!Done
    <2>. QED  BY <2>4, <2>5
  <1>4. ASSUME NEW h \in Hosts, StartTask(h) PROVE Promise!Next
    <2>1. Status = "open" /\ Status' = Status
      <3>1. Queued # {} /\ threads # 0
        <4>1. Cardinality(Running) \in Nat
          BY HostsFinite DEF Running
        <4>. QED  BY <1>4, <4>1 DEF StartTask, Queued
      <3>2. ~Ended
        BY <3>1 DEF IInv, Phases, Idle
      <3>. QED  BY <1>4, <3>2 DEF StartTask, Status, Ended
    <2>2. seen' = [seen EXCEPT ![h] = "running"]
      BY <1>4 DEF StartTask, Seen, IInv, TypeOK
    <2>3. h \in Promise!Todo /\ \A g \in Promise!Todo : h <= g
      <3>1. ASSUME NEW g \in Hosts, fut[g] \in {"none", "queued"} PROVE h <= g
        BY <1>4, <3>1, SizesAssumption DEF StartTask, Queued, IInv, TypeOK, Tasks, Hosts
      <3>. QED  BY <1>4, <3>1, SeenKinds DEF StartTask
    <2>4. Cardinality(Promise!Running) < Parallelism
      <3>1. Cardinality(Running) \in Nat /\ threads \in Nat /\ threads <= Parallelism
        BY HostsFinite, WorkersInRange, SizesAssumption DEF Running, IInv, TypeOK
      <3>2. Cardinality(Running) < Parallelism
        BY <1>4, <3>1, SizesAssumption DEF StartTask
      <3>. QED  BY <3>2, SeenKinds
    <2>5. Promise!Begin(h)
      BY <2>1, <2>2, <2>3, <2>4, SameCount DEF Promise!Begin
    <2>. QED  BY <2>5 DEF Promise!Next, Promise!HostIds, Hosts
  <1>5. ASSUME NEW h \in Hosts, EndTask(h) PROVE Promise!Next
    <2>1. Status = "open" /\ Status' = Status
      <3>1. h \in Running /\ threads # 0
        BY <1>5 DEF EndTask, Running, Unbegun
      <3>2. ~Ended
        BY <3>1 DEF IInv, Phases, Idle
      <3>. QED  BY <1>5, <3>2 DEF EndTask, Status, Ended
    <2>2. PICK e \in Endings : ending' = [ending EXCEPT ![h] = e]
      BY <1>5 DEF EndTask
    <2>. DEFINE d == IF e = "non_dict" THEN "exception" ELSE e
    <2>3. d \in Promise!Endings /\ seen' = [seen EXCEPT ![h] = d]
      BY <1>5, <2>2 DEF EndTask, Seen, IInv, TypeOK, Endings, Promise!Endings
    <2>4. h \in Promise!Running
      BY <1>5, SeenKinds DEF EndTask, Running
    <2>5. Promise!End(h)
      BY <2>1, <2>3, <2>4 DEF Promise!End
    <2>. QED  BY <2>5 DEF Promise!Next, Promise!HostIds, Hosts
  <1>6. CASE UNCHANGED vars
    BY <1>6 DEF vars, Promise!vars, Status, Seen
  <1>. QED
    BY <1>1, <1>2, <1>3, <1>4, <1>5, <1>6 DEF Next, Caller, Pool

\* For every number of hosts and workers, a fan-out is the simple work on hosts:
\* begun in their order, a bounded number at a time, over when it answers or
\* raises (server.py:239-251).
THEOREM FanOutKeepsPromise == Spec => ImplementsHostCalls
  <1>1. Init => Unbegun
    BY WorkersInRange DEF Init, Unbegun
  <1>. QED
    BY RefineInit, RefineStep, UnbegunStep, IInvHolds, <1>1, PTL
       DEF Spec, ImplementsHostCalls, Promise!Spec
=============================================================================
