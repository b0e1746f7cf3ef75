--------------------------- MODULE DispatchProofs ---------------------------
(***************************************************************************)
(* Proofs about several calls on one event loop (Dispatch), for any set of *)
(* calls, executor size, parallelism and number of hosts.                  *)
(***************************************************************************)
EXTENDS Dispatch, FiniteSetTheorems, TLAPS

CtxType == [task : Ids, thread : Ids, worker : [HostIds -> Ids]]

Outcomes == {"ok", "nonzero", "partial", "validation_error", "unknown_tool", "handler_error"}

\* What a line holds.
LEMMA LineKind == \A o \in Outcomes : Line(o) \in Lines
  BY DEF Lines, Outcomes

LEMMA OneLine == \A o \in Outcomes : <<Line(o)>> \in Seq(Lines)
  BY LineKind

LEMMA LineOutcome == \A o : Line(o).outcome = o
  BY Zenon DEF Line

\* What the outcome of a finished work item can be.
LEMMA OutcomeKind ==
  ASSUME TypeOK, NEW c \in Calls, Stage(c), job[c] = "done"
  PROVE  Outcome(c) \in Outcomes
  <1>1. CASE kind[c] = "multi"
    BY <1>1 DEF Outcome, Outcomes
  <1>2. CASE kind[c] # "multi"
    <2>1. kind[c] = "single" /\ size[c] = 1
      BY <1>2 DEF Stage
    <2>2. host[c][1] \in Endings
      BY <2>1 DEF Stage, Hosts
    <2>. QED  BY <1>2, <2>2 DEF Outcome, Outcomes, Endings
  <1>. QED  BY <1>1, <1>2

LEMMA HostsInRange ==
  ASSUME TypeOK, NEW c \in Calls
  PROVE  Hosts(c) \subseteq HostIds
  BY LimitsAssumption DEF TypeOK, Hosts, HostIds

\* Setting and resetting the request id of one call, field by field.
LEMMA SetAndReset ==
  ASSUME TypeOK, NEW c \in Calls
  PROVE  /\ Reset(Entered(c), c) \in [Calls -> CtxType]
         /\ Reset(ctx, c) \in [Calls -> CtxType]
         /\ Entered(c)[c].task = c
         /\ \A d \in Calls :
              /\ d # c => Reset(Entered(c), c)[d] = ctx[d]
              /\ d # c => Reset(ctx, c)[d] = ctx[d]
              /\ Reset(ctx, c)[d].thread = ctx[d].thread
              /\ Reset(ctx, c)[d].worker = ctx[d].worker
              /\ Reset(Entered(c), c)[d].thread = ctx[d].thread
              /\ Reset(Entered(c), c)[d].worker = ctx[d].worker
  <1>1. ctx \in [Calls -> CtxType] /\ c \in Ids /\ NoCall \in Ids
    BY DEF TypeOK, CtxType, Ids
  <1>. QED  BY <1>1 DEF Entered, Reset, CtxType

\* What a step leaves of a call as it was keeps that call's part.
LEMMA Frame ==
  ASSUME NEW d \in Calls,
         UNCHANGED <<kind[d], size[d], call[d], job[d], host[d], reached[d], logged[d]>>
  PROVE  /\ Hosts(d)' = Hosts(d)
         /\ Stage(d) => Stage(d)'
         /\ Report(d) => Report(d)'
         /\ Context(d) /\ UNCHANGED ctx[d] => Context(d)'
  <1>1. Hosts(d)' = Hosts(d)
    BY DEF Hosts
  <1>2. Stage(d) => Stage(d)'
    BY <1>1 DEF Stage
  <1>3. Outcome(d)' = Outcome(d)
    <2>1. Failures(d)' = Failures(d)
      BY <1>1 DEF Failures
    <2>. QED  BY <2>1 DEF Outcome
  <1>4. Report(d) => Report(d)'
    BY <1>3 DEF Report
  <1>. QED  BY <1>1, <1>2, <1>4 DEF Context

LEMMA InitInv == Init => IInv
  <1>. SUFFICES ASSUME Init PROVE IInv
    OBVIOUS
  <1>1. TypeOK
    <2>1. ctx \in [Calls -> CtxType]
      BY DEF Init, CtxType, Ids
    <2>2. host \in [Calls -> [HostIds -> {"todo", "running", "unentered"} \cup Endings]]
      BY DEF Init
    <2>3. logged \in [Calls -> Seq(Lines)] /\ queue \in Seq(Calls)
      BY DEF Init
    <2>. QED  BY <2>1, <2>2, <2>3, LimitsAssumption DEF Init, TypeOK, CtxType, Kinds, Over
  <1>2. OwnRequestId /\ Waiting
    BY DEF Init, OwnRequestId, Waiting
  <1>3. ASSUME NEW c \in Calls
        PROVE  Context(c) /\ Stage(c) /\ Report(c)
    <2>1. \A h \in HostIds : host[c][h] = "todo"
      BY DEF Init
    <2>2. Hosts(c) = {}
      BY DEF Init, Hosts
    <2>. QED  BY <2>1, <2>2 DEF Init, Context, Stage, Report
  <1>. QED  BY <1>1, <1>2, <1>3 DEF IInv

LEMMA RefuseInv ==
  ASSUME IInv, NEW c \in Calls, Refuse(c)
  PROVE  IInv'
  <1>0. TypeOK /\ OwnRequestId /\ Waiting
        /\ \A d \in Calls : Context(d) /\ Stage(d) /\ Report(d)
    BY DEF IInv
  <1>1. PICK k \in {"unknown", "invalid"} :
          /\ kind' = [kind EXCEPT ![c] = k]
          /\ logged' = [logged EXCEPT ![c] = Append(@, Line(
                 IF k = "unknown" THEN "unknown_tool" ELSE "validation_error"))]
    BY DEF Refuse
  <1>2. job[c] = "none" /\ logged[c] = <<>>
    BY <1>0 DEF Refuse, Stage, Report
  <1>3. /\ ctx' \in [Calls -> CtxType]
        /\ \A d \in Calls : /\ d # c => ctx'[d] = ctx[d]
                            /\ ctx'[d].thread = ctx[d].thread
                            /\ ctx'[d].worker = ctx[d].worker
    BY <1>0, SetAndReset DEF Refuse
  <1>4. tags' = tags \cup {<<c, c>>}
    BY <1>0, SetAndReset DEF Refuse
  <1>5. logged'[c] \in {<<Line("unknown_tool")>>, <<Line("validation_error")>>}
    BY <1>0, <1>1, <1>2 DEF TypeOK
  <1>6. TypeOK'
    <2>1. logged' \in [Calls -> Seq(Lines)]
      <3>1. /\ <<Line("unknown_tool")>> \in Seq(Lines)
            /\ <<Line("validation_error")>> \in Seq(Lines)
        BY OneLine DEF Outcomes
      <3>2. logged'[c] \in Seq(Lines)
        BY <1>5, <3>1
      <3>. QED  BY <1>0, <1>1, <3>2 DEF TypeOK
    <2>2. /\ kind' \in [Calls -> Kinds \cup {"none"}]
          /\ call' \in [Calls -> Over \cup {"new", "waiting"}]
      BY <1>0, <1>1 DEF TypeOK, Refuse, Kinds, Over
    <2>3. tags' \in SUBSET (Calls \X Ids)
      BY <1>0, <1>4 DEF TypeOK, Ids
    <2>. QED  BY <1>0, <1>3, <2>1, <2>2, <2>3 DEF TypeOK, Refuse, CtxType
  <1>7. OwnRequestId' /\ Waiting'
    BY <1>0, <1>4 DEF OwnRequestId, Waiting, Refuse
  <1>8. ASSUME NEW d \in Calls
        PROVE  Context(d)' /\ Stage(d)' /\ Report(d)'
    <2>1. Context(d)'
      BY <1>0, <1>3 DEF Context, Refuse, TypeOK
    <2>2. Stage(d)'
      <3>1. CASE d = c
        <4>1. Hosts(c)' = Hosts(c)
          BY DEF Hosts, Refuse
        <4>. QED  BY <1>0, <1>1, <1>2, <3>1, <4>1 DEF Stage, Refuse, TypeOK
      <3>2. CASE d # c
        BY <1>0, <1>1, <3>2, Frame DEF Refuse, TypeOK
      <3>. QED  BY <3>1, <3>2
    <2>3. Report(d)'
      <3>1. CASE d = c
        BY <1>0, <1>2, <1>5, <3>1 DEF Report, Refuse, TypeOK
      <3>2. CASE d # c
        BY <1>0, <1>1, <3>2, Frame DEF Refuse, TypeOK
      <3>. QED  BY <3>1, <3>2
    <2>. QED  BY <2>1, <2>2, <2>3
  <1>. QED  BY <1>6, <1>7, <1>8 DEF IInv

\* What queueing a work item does, whether or not a thread can be had for it.
LEMMA EnqueueFacts ==
  ASSUME IInv, NEW c \in Calls, NEW k \in {"single", "multi"}, NEW n \in HostIds,
         Enqueue(c, k, n)
  PROVE  /\ logged[c] = <<>>
         /\ kind' \in [Calls -> Kinds \cup {"none"}]
         /\ size' \in [Calls -> 0..MaxHosts]
         /\ job' \in [Calls -> {"none", "queued", "dropped", "running", "done", "raised", "starved"}]
         /\ queue' \in Seq(Calls)
         /\ tags' \in SUBSET (Calls \X Ids)
         /\ OwnRequestId' /\ Waiting'
         /\ \A h \in HostIds : host'[c][h] = "todo"
         /\ call'[c] \in {"waiting", "answered", "failed"} => Stage(c)'
         /\ kind'[c] = k /\ job'[c] = "queued"
  <1>0. TypeOK /\ OwnRequestId /\ Waiting
        /\ \A d \in Calls : Context(d) /\ Stage(d) /\ Report(d)
    BY DEF IInv
  <1>1. call[c] = "new" /\ job[c] = "none" /\ logged[c] = <<>>
    BY <1>0 DEF Enqueue, Stage, Report
  <1>2. tags' = tags \cup {<<c, c>>}
    BY <1>0, SetAndReset DEF Enqueue
  <1>3. tags' \in SUBSET (Calls \X Ids) /\ OwnRequestId'
    BY <1>0, <1>2 DEF TypeOK, Ids, OwnRequestId
  <1>4. /\ kind' \in [Calls -> Kinds \cup {"none"}]
        /\ size' \in [Calls -> 0..MaxHosts]
        /\ job' \in [Calls -> {"none", "queued", "dropped", "running", "done", "raised", "starved"}]
        /\ queue' \in Seq(Calls)
        /\ kind'[c] = k /\ size'[c] = n /\ job'[c] = "queued"
    BY <1>0 DEF Enqueue, TypeOK, Kinds, HostIds
  <1>5. Waiting'
    <2>1. /\ Len(queue') = Len(queue) + 1
          /\ queue'[Len(queue) + 1] = c
          /\ \A i \in 1..Len(queue) : queue'[i] = queue[i]
      BY <1>0 DEF Enqueue, TypeOK
    <2>2. ASSUME NEW i \in 1..Len(queue)
          PROVE  queue[i] \in Calls /\ queue[i] # c
      <3>1. queue[i] \in Calls
        BY <1>0 DEF TypeOK
      <3>2. job[queue[i]] \in {"queued", "dropped"}
        BY <1>0 DEF Waiting
      <3>. QED  BY <1>1, <3>1, <3>2
    <2>3. \A i \in 1..Len(queue) : job'[queue[i]] = job[queue[i]]
      BY <1>0, <2>2 DEF Enqueue, TypeOK
    <2>4. Len(queue) \in Nat
      BY <1>0 DEF TypeOK
    <2>5. \A i \in 1..Len(queue) : job'[queue[i]] \in {"queued", "dropped"}
      BY <1>0, <2>3 DEF Waiting
    <2>6. \A i \in 1..(Len(queue) + 1) : job'[queue'[i]] \in {"queued", "dropped"}
      <3>. TAKE i \in 1..(Len(queue) + 1)
      <3>1. CASE i = Len(queue) + 1
        BY <1>4, <2>1, <3>1
      <3>2. CASE i \in 1..Len(queue)
        BY <2>1, <2>5, <3>2
      <3>. QED  BY <2>4, <3>1, <3>2
    <2>7. \A i, j \in 1..(Len(queue) + 1) : queue'[i] = queue'[j] => i = j
      BY <1>0, <2>1, <2>2, <2>4 DEF Waiting
    <2>. QED  BY <2>1, <2>6, <2>7 DEF Waiting
  <1>6. \A h \in HostIds : host'[c][h] = "todo"
    BY <1>0, <1>1 DEF Stage, Enqueue
  <1>7. call'[c] \in {"waiting", "answered", "failed"} => Stage(c)'
    <2>1. reached[c] = {}
      <3>1. \A h \in HostIds : host[c][h] = "todo"
        BY <1>0, <1>1 DEF Stage
      <3>2. Hosts(c) \subseteq HostIds
        BY <1>0, HostsInRange
      <3>. QED  BY <1>0, <3>1, <3>2 DEF Stage
    <2>2. Hosts(c)' \subseteq HostIds
      BY <1>4, LimitsAssumption DEF Hosts, HostIds
    <2>3. reached'[c] = {h \in Hosts(c)' : host'[c][h] # "todo"}
      BY <1>6, <2>1, <2>2 DEF Enqueue
    <2>4. kind'[c] = "single" => size'[c] = 1
      BY <1>4 DEF Enqueue
    <2>. QED  BY <1>4, <1>6, <2>3, <2>4 DEF Stage
  <1>. QED  BY <1>1, <1>3, <1>4, <1>5, <1>6, <1>7

\* The calls that queueing a work item leaves alone.
LEMMA EnqueueOthers ==
  ASSUME IInv, NEW c \in Calls, NEW k \in {"single", "multi"}, NEW n \in HostIds,
         Enqueue(c, k, n), NEW d \in Calls, d # c,
         UNCHANGED <<call[d], logged[d], ctx[d]>>
  PROVE  Context(d)' /\ Stage(d)' /\ Report(d)'
  <1>1. UNCHANGED <<kind[d], size[d], job[d], host[d], reached[d]>>
    BY DEF Enqueue, IInv, TypeOK
  <1>. QED  BY <1>1, Frame DEF IInv

LEMMA AwaitInv ==
  ASSUME IInv, NEW c \in Calls, Await(c)
  PROVE  IInv'
  <1>0. TypeOK /\ \A d \in Calls : Context(d) /\ Stage(d) /\ Report(d)
    BY DEF IInv
  <1>1. PICK k \in {"single", "multi"}, n \in HostIds : Enqueue(c, k, n)
    BY DEF Await
  <1>2. UNCHANGED <<host, reached, logged>> /\ call' = [call EXCEPT ![c] = "waiting"]
    BY <1>1 DEF Await, Enqueue
  <1>3. /\ ctx' \in [Calls -> CtxType]
        /\ ctx'[c].task = c /\ ctx'[c].thread = c
        /\ \A d \in Calls : d # c => ctx'[d] = ctx[d]
    <2>1. ctx \in [Calls -> CtxType] /\ c \in Ids
      BY <1>0 DEF TypeOK, CtxType, Ids
    <2>. QED  BY <2>1 DEF Await, Entered, CtxType
  <1>4. threads' \in 0..Slots
    BY <1>0, LimitsAssumption DEF Await, ThreadsAfterSubmit, TypeOK
  <1>5. TypeOK'
    <2>1. call' \in [Calls -> Over \cup {"new", "waiting"}]
      BY <1>0, <1>2 DEF TypeOK
    <2>. QED  BY <1>0, <1>1, <1>2, <1>3, <1>4, <2>1, EnqueueFacts DEF TypeOK, CtxType
  <1>6. OwnRequestId' /\ Waiting'
    BY <1>1, EnqueueFacts
  <1>7. ASSUME NEW d \in Calls
        PROVE  Context(d)' /\ Stage(d)' /\ Report(d)'
    <2>1. CASE d = c
      <3>1. call'[c] = "waiting"
        BY <1>0, <1>2 DEF TypeOK
      <3>2. Context(c)'
        BY <1>1, <1>3, EnqueueFacts DEF Context
      <3>3. Stage(c)' /\ Report(c)'
        BY <1>1, <1>2, <3>1, EnqueueFacts DEF Report
      <3>. QED  BY <2>1, <3>2, <3>3
    <2>2. CASE d # c
      BY <1>0, <1>1, <1>2, <1>3, <2>2, EnqueueOthers DEF TypeOK
    <2>. QED  BY <2>1, <2>2
  <1>. QED  BY <1>5, <1>6, <1>7 DEF IInv

LEMMA SubmitFailsInv ==
  ASSUME IInv, NEW c \in Calls, SubmitFails(c)
  PROVE  IInv'
  <1>0. TypeOK /\ \A d \in Calls : Context(d) /\ Stage(d) /\ Report(d)
    BY DEF IInv
  <1>1. PICK k \in {"single", "multi"}, n \in HostIds :
          /\ Enqueue(c, k, n)
          /\ call' = [call EXCEPT ![c] = IF k = "single" THEN "answered" ELSE "failed"]
          /\ logged' = IF k = "single"
                       THEN [logged EXCEPT ![c] = Append(@, Line("handler_error"))]
                       ELSE logged
    BY DEF SubmitFails
  <1>2. UNCHANGED <<host, reached, threads>>
    BY <1>1 DEF SubmitFails, Enqueue
  <1>3. /\ ctx' \in [Calls -> CtxType]
        /\ ctx'[c].thread = c
        /\ \A d \in Calls : d # c => ctx'[d] = ctx[d]
    <2>1. ctx \in [Calls -> CtxType] /\ c \in Ids /\ NoCall \in Ids
      BY <1>0 DEF TypeOK, CtxType, Ids
    <2>. DEFINE x == [Entered(c) EXCEPT ![c].thread = Entered(c)[c].task]
    <2>2. x \in [Calls -> CtxType] /\ x[c].thread = c
      BY <2>1 DEF Entered, CtxType
    <2>3. \A d \in Calls : d # c => x[d] = ctx[d]
      BY <2>1 DEF Entered, CtxType
    <2>4. ctx' = [x EXCEPT ![c].task = NoCall]
      BY DEF SubmitFails, Reset
    <2>. HIDE DEF x
    <2>. QED  BY <2>1, <2>2, <2>3, <2>4 DEF CtxType
  <1>4. IF k = "single" THEN logged'[c] = <<Line("handler_error")>>
                        ELSE logged'[c] = <<>>
    <2>1. logged[c] = <<>>
      BY <1>1, EnqueueFacts
    <2>2. CASE k = "single"
      BY <1>0, <1>1, <2>1, <2>2 DEF TypeOK
    <2>3. CASE k # "single"
      BY <1>1, <2>1, <2>3
    <2>. QED  BY <2>2, <2>3
  <1>5. TypeOK'
    <2>1. call' \in [Calls -> Over \cup {"new", "waiting"}]
      BY <1>0, <1>1 DEF TypeOK, Over
    <2>2. logged' \in [Calls -> Seq(Lines)]
      <3>1. <<Line("handler_error")>> \in Seq(Lines)
        BY OneLine DEF Outcomes
      <3>. QED  BY <1>0, <1>1, <1>4, <3>1 DEF TypeOK
    <2>. QED  BY <1>0, <1>1, <1>2, <1>3, <2>1, <2>2, EnqueueFacts DEF TypeOK, CtxType
  <1>6. OwnRequestId' /\ Waiting'
    BY <1>1, EnqueueFacts
  <1>7. ASSUME NEW d \in Calls
        PROVE  Context(d)' /\ Stage(d)' /\ Report(d)'
    <2>1. CASE d = c
      <3>1. call'[c] = IF k = "single" THEN "answered" ELSE "failed"
        BY <1>0, <1>1 DEF TypeOK
      <3>2. Context(c)'
        BY <1>1, <1>3, <3>1, EnqueueFacts DEF Context
      <3>3. Stage(c)'
        BY <1>1, <3>1, EnqueueFacts
      <3>4. Report(c)'
        BY <1>1, <1>4, <3>1, EnqueueFacts DEF Report
      <3>. QED  BY <2>1, <3>2, <3>3, <3>4
    <2>2. CASE d # c
      BY <1>0, <1>1, <1>3, <2>2, EnqueueOthers DEF TypeOK
    <2>. QED  BY <2>1, <2>2
  <1>. QED  BY <1>5, <1>6, <1>7 DEF IInv

LEMMA CancelInv ==
  ASSUME IInv, NEW c \in Calls, Cancel(c)
  PROVE  IInv'
  <1>0. TypeOK /\ OwnRequestId /\ Waiting
        /\ \A d \in Calls : Context(d) /\ Stage(d) /\ Report(d)
    BY DEF IInv
  <1>1. /\ ctx' \in [Calls -> CtxType]
        /\ \A d \in Calls : /\ d # c => ctx'[d] = ctx[d]
                            /\ ctx'[d].thread = ctx[d].thread
                            /\ ctx'[d].worker = ctx[d].worker
    BY <1>0, SetAndReset DEF Cancel
  <1>2. /\ call[c] = "waiting" /\ call'[c] = "cancelled"
        /\ job'[c] = IF job[c] = "queued" THEN "dropped" ELSE job[c]
        /\ \A d \in Calls : d # c => call'[d] = call[d] /\ job'[d] = job[d]
    BY <1>0 DEF Cancel, TypeOK
  <1>3. TypeOK'
    <2>1. /\ call' \in [Calls -> Over \cup {"new", "waiting"}]
          /\ job' \in [Calls -> {"none", "queued", "dropped", "running", "done", "raised", "starved"}]
      BY <1>0 DEF TypeOK, Cancel, Over
    <2>. QED  BY <1>0, <1>1, <2>1 DEF TypeOK, Cancel, CtxType
  <1>4. OwnRequestId' /\ Waiting'
    <2>1. \A i \in 1..Len(queue) : queue[i] \in Calls
      BY <1>0 DEF TypeOK
    <2>2. \A i \in 1..Len(queue) : job'[queue[i]] \in {"queued", "dropped"}
      BY <1>0, <1>2, <2>1 DEF Waiting
    <2>. QED  BY <1>0, <2>2 DEF Waiting, OwnRequestId, Cancel
  <1>5. ASSUME NEW d \in Calls
        PROVE  Context(d)' /\ Stage(d)' /\ Report(d)'
    <2>1. CASE d = c
      <3>1. Hosts(c)' = Hosts(c)
        BY DEF Cancel, Hosts
      <3>2. job[c] # "none"
        BY <1>0, <1>2 DEF Stage
      <3>3. Stage(c)'
        BY <1>0, <1>2, <3>1, <3>2 DEF Stage, Cancel
      <3>4. Context(c)' /\ Report(c)'
        BY <1>0, <1>1, <1>2, <3>2 DEF Context, Report, Cancel
      <3>. QED  BY <2>1, <3>3, <3>4
    <2>2. CASE d # c
      BY <1>0, <1>1, <1>2, <2>2, Frame DEF Cancel
    <2>. QED  BY <2>1, <2>2
  <1>. QED  BY <1>3, <1>4, <1>5 DEF IInv

LEMMA ResumeInv ==
  ASSUME IInv, NEW c \in Calls, Resume(c)
  PROVE  IInv'
  <1>0. TypeOK /\ OwnRequestId /\ Waiting
        /\ \A d \in Calls : Context(d) /\ Stage(d) /\ Report(d)
    BY DEF IInv
  <1>1. /\ ctx' \in [Calls -> CtxType]
        /\ \A d \in Calls : /\ d # c => ctx'[d] = ctx[d]
                            /\ ctx'[d].thread = ctx[d].thread
                            /\ ctx'[d].worker = ctx[d].worker
    BY <1>0, SetAndReset DEF Resume
  <1>2. call[c] = "waiting" /\ ctx[c].task = c /\ logged[c] = <<>>
    BY <1>0 DEF Resume, Context, Report
  <1>3. \/ /\ job[c] = "done"
           /\ call' = [call EXCEPT ![c] = "answered"]
           /\ logged' = [logged EXCEPT ![c] = <<Line(Outcome(c))>>]
           /\ tags' = tags \cup {<<c, c>>}
        \/ /\ job[c] \in {"raised", "starved"}
           /\ call' = [call EXCEPT ![c] = "failed"]
           /\ UNCHANGED <<logged, tags>>
    <2>1. Append(logged[c], Line(Outcome(c))) = <<Line(Outcome(c))>>
      BY <1>2
    <2>. QED  BY <1>2, <2>1 DEF Resume
  <1>4. TypeOK'
    <2>1. call' \in [Calls -> Over \cup {"new", "waiting"}]
      BY <1>0, <1>3 DEF TypeOK, Over
    <2>2. logged' \in [Calls -> Seq(Lines)]
      <3>1. job[c] = "done" => <<Line(Outcome(c))>> \in Seq(Lines)
        BY <1>0, OutcomeKind, OneLine
      <3>. QED  BY <1>0, <1>3, <3>1 DEF TypeOK
    <2>3. tags' \in SUBSET (Calls \X Ids)
      BY <1>0, <1>3 DEF TypeOK, Ids
    <2>. QED  BY <1>0, <1>1, <2>1, <2>2, <2>3 DEF TypeOK, Resume, CtxType
  <1>5. OwnRequestId' /\ Waiting'
    BY <1>0, <1>3 DEF OwnRequestId, Waiting, Resume
  <1>6. ASSUME NEW d \in Calls
        PROVE  Context(d)' /\ Stage(d)' /\ Report(d)'
    <2>1. CASE d = c
      <3>1. Hosts(c)' = Hosts(c) /\ call'[c] \in {"answered", "failed"}
        BY <1>0, <1>3 DEF Resume, Hosts, TypeOK
      <3>2. Stage(c)'
        BY <1>0, <1>2, <1>3, <3>1 DEF Stage, Resume
      <3>3. Context(c)'
        BY <1>0, <1>1, <3>1 DEF Context, Resume
      <3>4. Report(c)'
        <4>1. Outcome(c)' = Outcome(c)
          BY <3>1 DEF Resume, Outcome, Failures
        <4>. QED  BY <1>0, <1>2, <1>3, <4>1 DEF Report, Resume, TypeOK
      <3>. QED  BY <2>1, <3>2, <3>3, <3>4
    <2>2. CASE d # c
      BY <1>0, <1>1, <1>3, <2>2, Frame DEF Resume, TypeOK
    <2>. QED  BY <2>1, <2>2
  <1>. QED  BY <1>4, <1>5, <1>6 DEF IInv

LEMMA StartJobInv ==
  ASSUME IInv, StartJob
  PROVE  IInv'
  <1>0. TypeOK /\ OwnRequestId /\ Waiting
        /\ \A d \in Calls : Context(d) /\ Stage(d) /\ Report(d)
    BY DEF IInv
  <1>1. PICK c \in Calls : /\ c = Head(queue) /\ c = queue[1]
                         /\ Len(queue) \in Nat /\ 1 \in 1..Len(queue)
    BY <1>0 DEF StartJob, TypeOK
  <1>2. /\ job[c] \in {"queued", "dropped"}
        /\ job' = [job EXCEPT ![c] = IF job[c] = "dropped" THEN "dropped" ELSE "running"]
    BY <1>0, <1>1 DEF Waiting, StartJob
  <1>3. /\ queue' \in Seq(Calls)
        /\ Len(queue') = Len(queue) - 1
        /\ \A i \in 1..Len(queue') : queue'[i] = queue[i + 1]
    BY <1>0 DEF StartJob, TypeOK
  <1>4. TypeOK'
    <2>1. job' \in [Calls -> {"none", "queued", "dropped", "running", "done", "raised", "starved"}]
      BY <1>0, <1>1, <1>2 DEF TypeOK
    <2>. QED  BY <1>0, <1>3, <2>1 DEF TypeOK, StartJob
  <1>5. OwnRequestId'
    BY <1>0 DEF OwnRequestId, StartJob
  <1>6. Waiting'
    <2>1. ASSUME NEW i \in 1..Len(queue')
          PROVE  job'[queue'[i]] \in {"queued", "dropped"}
      <3>1. i + 1 \in 1..Len(queue) /\ i + 1 # 1
        BY <1>1, <1>3
      <3>2. queue'[i] = queue[i + 1]
        BY <1>3
      <3>4. queue[i + 1] \in Calls
        BY <1>0, <3>1 DEF TypeOK
      <3>3. queue[i + 1] # c
        BY <1>0, <1>1, <3>1 DEF Waiting
      <3>. QED  BY <1>0, <1>2, <3>1, <3>2, <3>3, <3>4 DEF Waiting, TypeOK
    <2>2. ASSUME NEW i \in 1..Len(queue'), NEW j \in 1..Len(queue'), queue'[i] = queue'[j]
          PROVE  i = j
      <3>1. i + 1 \in 1..Len(queue) /\ j + 1 \in 1..Len(queue)
        BY <1>1, <1>3
      <3>2. i + 1 = j + 1
        BY <1>0, <1>3, <2>2, <3>1 DEF Waiting
      <3>. QED  BY <3>2
    <2>. QED  BY <2>1, <2>2 DEF Waiting
  <1>7. ASSUME NEW d \in Calls
        PROVE  Context(d)' /\ Stage(d)' /\ Report(d)'
    <2>1. CASE d = c
      <3>1. Hosts(c)' = Hosts(c)
        BY DEF StartJob, Hosts
      <3>2. job'[c] = IF job[c] = "dropped" THEN "dropped" ELSE "running"
        BY <1>0, <1>1, <1>2 DEF TypeOK
      <3>3. Stage(c)'
        BY <1>0, <1>1, <1>2, <3>1, <3>2 DEF Stage, StartJob
      <3>4. Context(c)' /\ Report(c)'
        BY <1>0, <1>1, <1>2, <3>2 DEF Context, Report, StartJob
      <3>. QED  BY <2>1, <3>3, <3>4
    <2>2. CASE d # c
      BY <1>0, <1>2, <2>2, Frame DEF StartJob, TypeOK
    <2>. QED  BY <2>1, <2>2
  <1>. QED  BY <1>4, <1>5, <1>6, <1>7 DEF IInv

LEMMA StartHandlerInv ==
  ASSUME IInv, NEW c \in Calls, NEW h \in HostIds, StartHandler(c, h)
  PROVE  IInv'
  <1>0. TypeOK /\ OwnRequestId /\ Waiting
        /\ \A d \in Calls : Context(d) /\ Stage(d) /\ Report(d)
    BY DEF IInv
  <1>1. /\ job[c] = "running" /\ h \in Hosts(c) /\ host[c][h] = "todo"
        /\ ctx[c].thread = c
    BY <1>0 DEF StartHandler, Todo, Context
  <1>2. Hosts(c) \subseteq HostIds /\ Hosts(c)' = Hosts(c)
    BY <1>0, HostsInRange DEF StartHandler, Hosts
  <1>3. \/ /\ host' = [host EXCEPT ![c][h] = "unentered"]
           /\ UNCHANGED <<reached, ctx, tags>>
           /\ \E g \in Running(c) : Home(c, g) = Home(c, h)
        \/ /\ host' = [host EXCEPT ![c][h] = "running"]
           /\ reached' = [reached EXCEPT ![c] = @ \cup {h}]
           /\ ctx' = [ctx EXCEPT ![c].worker[h] = c]
           /\ tags' = tags \cup {<<c, ctx'[c].worker[h]>>}
    BY <1>1 DEF StartHandler, Copied
  \* A host has a context object of its own: the first case never happens.
  <1>4. /\ host' = [host EXCEPT ![c][h] = "running"]
        /\ reached' = [reached EXCEPT ![c] = @ \cup {h}]
        /\ ctx' = [ctx EXCEPT ![c].worker[h] = c]
        /\ tags' = tags \cup {<<c, ctx'[c].worker[h]>>}
    <2>1. ~ \E g \in Running(c) : Home(c, g) = Home(c, h)
      BY <1>1 DEF Home, Running
    <2>. QED  BY <1>3, <2>1
  <1>5. /\ host' \in [Calls -> [HostIds -> {"todo", "running", "unentered"} \cup Endings]]
        /\ host'[c][h] = "running"
        /\ \A g \in HostIds : g # h => host'[c][g] = host[c][g]
        /\ \A d \in Calls : d # c => host'[d] = host[d]
    BY <1>0, <1>4 DEF TypeOK
  <1>6. /\ ctx' \in [Calls -> CtxType]
        /\ ctx'[c].worker[h] = c /\ ctx'[c].task = ctx[c].task
        /\ ctx'[c].thread = ctx[c].thread
        /\ \A g \in HostIds : g # h => ctx'[c].worker[g] = ctx[c].worker[g]
        /\ \A d \in Calls : d # c => ctx'[d] = ctx[d]
    <2>1. ctx \in [Calls -> CtxType] /\ c \in Ids
      BY <1>0 DEF TypeOK, CtxType, Ids
    <2>. QED  BY <1>4, <2>1 DEF CtxType
  <1>7. TypeOK'
    <2>1. /\ reached' \in [Calls -> SUBSET HostIds]
          /\ tags' \in SUBSET (Calls \X Ids)
      BY <1>0, <1>4, <1>6 DEF TypeOK, Ids
    <2>. QED  BY <1>0, <1>5, <1>6, <2>1 DEF TypeOK, StartHandler, CtxType
  <1>8. OwnRequestId' /\ Waiting'
    BY <1>0, <1>4, <1>6 DEF OwnRequestId, Waiting, StartHandler
  <1>9. ASSUME NEW d \in Calls
        PROVE  Context(d)' /\ Stage(d)' /\ Report(d)'
    <2>1. CASE d = c
      <3>1. Context(c)'
        BY <1>0, <1>5, <1>6 DEF Context, StartHandler
      <3>2. reached'[c] = {g \in Hosts(c) : host'[c][g] # "todo"}
        BY <1>0, <1>1, <1>2, <1>4, <1>5 DEF Stage, TypeOK
      <3>3. Stage(c)'
        BY <1>0, <1>1, <1>2, <1>5, <3>2 DEF Stage, StartHandler
      <3>4. Report(c)'
        BY <1>0, <1>1 DEF Report, StartHandler
      <3>. QED  BY <2>1, <3>1, <3>3, <3>4
    <2>2. CASE d # c
      BY <1>0, <1>4, <1>5, <1>6, <2>2, Frame DEF StartHandler, TypeOK
    <2>. QED  BY <2>1, <2>2
  <1>. QED  BY <1>7, <1>8, <1>9 DEF IInv

LEMMA EndHandlerInv ==
  ASSUME IInv, NEW c \in Calls, NEW h \in HostIds, EndHandler(c, h)
  PROVE  IInv'
  <1>0. TypeOK /\ OwnRequestId /\ Waiting
        /\ \A d \in Calls : Context(d) /\ Stage(d) /\ Report(d)
    BY DEF IInv
  <1>1. /\ job[c] = "running" /\ h \in Hosts(c) /\ host[c][h] = "running"
        /\ ctx[c].worker[h] = c
    BY <1>0 DEF EndHandler, Running, Context, Stage
  <1>2. Hosts(c) \subseteq HostIds /\ Hosts(c)' = Hosts(c)
    BY <1>0, HostsInRange DEF EndHandler, Hosts
  <1>3. PICK e \in Endings : host' = [host EXCEPT ![c][h] = e]
    BY DEF EndHandler
  <1>4. tags' = tags \cup {<<c, c>>}
    BY <1>1 DEF EndHandler
  <1>5. /\ host' \in [Calls -> [HostIds -> {"todo", "running", "unentered"} \cup Endings]]
        /\ host'[c][h] = e
        /\ \A g \in HostIds : g # h => host'[c][g] = host[c][g]
        /\ \A d \in Calls : d # c => host'[d] = host[d]
    BY <1>0, <1>3 DEF TypeOK
  <1>6. e \notin {"todo", "running", "unentered"}
    BY DEF Endings
  <1>7. TypeOK'
    <2>1. tags' \in SUBSET (Calls \X Ids)
      BY <1>0, <1>4 DEF TypeOK, Ids
    <2>. QED  BY <1>0, <1>5, <2>1 DEF TypeOK, EndHandler
  <1>8. OwnRequestId' /\ Waiting'
    BY <1>0, <1>4 DEF OwnRequestId, Waiting, EndHandler
  <1>9. ASSUME NEW d \in Calls
        PROVE  Context(d)' /\ Stage(d)' /\ Report(d)'
    <2>1. CASE d = c
      <3>1. Context(c)'
        BY <1>0, <1>5, <1>6 DEF Context, EndHandler
      <3>2. reached'[c] = {g \in Hosts(c) : host'[c][g] # "todo"}
        BY <1>0, <1>1, <1>2, <1>5, <1>6 DEF Stage, EndHandler
      <3>3. Stage(c)'
        BY <1>0, <1>1, <1>2, <1>5, <1>6, <3>2 DEF Stage, EndHandler
      <3>4. Report(c)'
        BY <1>0, <1>1 DEF Report, EndHandler
      <3>. QED  BY <2>1, <3>1, <3>3, <3>4
    <2>2. CASE d # c
      BY <1>0, <1>5, <2>2, Frame DEF EndHandler
    <2>. QED  BY <2>1, <2>2
  <1>. QED  BY <1>7, <1>8, <1>9 DEF IInv

\* A work item ends, one way or the other.
LEMMA JobEndsInv ==
  ASSUME IInv, NEW c \in Calls, EndJob(c) \/ JobRaises(c)
  PROVE  IInv'
  <1>0. TypeOK /\ OwnRequestId /\ Waiting
        /\ \A d \in Calls : Context(d) /\ Stage(d) /\ Report(d)
    BY DEF IInv
  <1>1. /\ job[c] = "running" /\ Running(c) = {}
        /\ UNCHANGED <<kind, size, call, queue, threads, host, reached, ctx, tags, logged>>
    BY DEF EndJob, JobRaises
  <1>2. PICK j \in {"done", "starved"} :
          /\ job' = [job EXCEPT ![c] = j]
          /\ j = "done" => Todo(c) = {}
          /\ j = "starved" => kind[c] = "multi"
    <2>1. \A h \in Hosts(c) : host[c][h] # "unentered"
      BY <1>0, HostsInRange DEF Stage
    <2>. QED  BY <2>1 DEF EndJob, JobRaises
  <1>3. TypeOK'
    <2>1. job' \in [Calls -> {"none", "queued", "dropped", "running", "done", "raised", "starved"}]
      BY <1>0, <1>2 DEF TypeOK
    <2>. QED  BY <1>0, <1>1, <2>1 DEF TypeOK
  <1>4. OwnRequestId' /\ Waiting'
    <2>1. ASSUME NEW i \in 1..Len(queue)
          PROVE  job'[queue[i]] \in {"queued", "dropped"}
      <3>1. queue[i] \in Calls
        BY <1>0 DEF TypeOK
      <3>2. job[queue[i]] \in {"queued", "dropped"}
        BY <1>0 DEF Waiting
      <3>. QED  BY <1>0, <1>1, <1>2, <3>1, <3>2 DEF TypeOK
    <2>. QED  BY <1>0, <1>1, <2>1 DEF Waiting, OwnRequestId
  <1>5. ASSUME NEW d \in Calls
        PROVE  Context(d)' /\ Stage(d)' /\ Report(d)'
    <2>1. CASE d = c
      <3>1. Hosts(c)' = Hosts(c) /\ Hosts(c) \subseteq HostIds /\ job'[c] = j
        BY <1>0, <1>1, <1>2, HostsInRange DEF Hosts, TypeOK
      <3>2. \A h \in HostIds : host[c][h] # "running"
        BY <1>0, <1>1 DEF Stage, Running
      <3>3. j = "done" => \A h \in Hosts(c) : host[c][h] \in Endings
        <4>1. \A h \in Hosts(c) : host[c][h] \in {"todo", "running", "unentered"} \cup Endings
          BY <1>0, <3>1 DEF TypeOK
        <4>2. \A h \in Hosts(c) : host[c][h] # "unentered"
          BY <1>0, <3>1 DEF Stage
        <4>. QED  BY <1>2, <3>1, <3>2, <4>1, <4>2 DEF Todo
      <3>4. Stage(c)'
        BY <1>0, <1>1, <3>1, <3>2, <3>3 DEF Stage
      <3>5. Context(c)' /\ Report(c)'
        BY <1>0, <1>1, <3>1 DEF Context, Report
      <3>. QED  BY <2>1, <3>4, <3>5
    <2>2. CASE d # c
      BY <1>0, <1>1, <1>2, <2>2, Frame DEF TypeOK
    <2>. QED  BY <2>1, <2>2
  <1>. QED  BY <1>3, <1>4, <1>5 DEF IInv

LEMMA StepInv == IInv /\ [Next]_vars => IInv'
  <1>. SUFFICES ASSUME IInv, [Next]_vars PROVE IInv'
    OBVIOUS
  <1>1. CASE StartJob
    BY <1>1, StartJobInv
  <1>2. ASSUME NEW c \in Calls, Client(c) PROVE IInv'
    BY <1>2, RefuseInv, AwaitInv, SubmitFailsInv, CancelInv DEF Client
  <1>3. ASSUME NEW c \in Calls, Resume(c) PROVE IInv'
    BY <1>3, ResumeInv
  <1>4. ASSUME NEW c \in Calls, Thread(c) PROVE IInv'
    BY <1>4, StartHandlerInv, EndHandlerInv, JobEndsInv DEF Thread
  <1>5. ASSUME NEW c \in Calls, JobRaises(c) PROVE IInv'
    BY <1>5, JobEndsInv
  <1>6. CASE UNCHANGED vars
    <2>1. \A d \in Calls : (Context(d) /\ Stage(d) /\ Report(d))
                              => (Context(d) /\ Stage(d) /\ Report(d))'
      BY <1>6, Frame DEF vars
    <2>. QED  BY <1>6, <2>1 DEF vars, IInv, TypeOK, OwnRequestId, Waiting
  <1>. QED  BY <1>1, <1>2, <1>3, <1>4, <1>5, <1>6 DEF Next

-----------------------------------------------------------------------------

\* The inductive invariant: contexts, stages of the work items, the queue and
\* the lines logged agree in every reachable state.
THEOREM IInvHolds == Spec => []IInv
  BY InitInv, StepInv, PTL DEF Spec

\* Every variable keeps its kind of value, for any number of calls.
THEOREM TypeCorrect == Spec => []TypeOK
  <1>1. IInv => TypeOK
    BY DEF IInv
  <1>. QED  BY <1>1, IInvHolds, PTL

\* However calls, threads and cancellations interleave, each line of a call
\* carries that call's request id (log.py:13-41, server.py:246-247).
THEOREM LinesAreOwn == Spec => []OwnRequestId
  <1>1. IInv => OwnRequestId
    BY DEF IInv
  <1>. QED  BY <1>1, IInvHolds, PTL

\* A call logs one tool_call line if it answers and none otherwise, and the
\* line tells what became of its hosts (server.py:309-345).
THEOREM LinesAreTrue == Spec => []LoggedTruth
  <1>1. IInv => LoggedTruth
    <2>. SUFFICES ASSUME IInv, NEW c \in Calls, call[c] = "answered"
                  PROVE  /\ Len(logged[c]) = 1
                         /\ kind[c] = "multi" =>
                              (logged[c][1].outcome = "partial"
                                 <=> \E h \in Hosts(c) : host[c][h] # "ok")
                         /\ kind[c] = "single" =>
                              (logged[c][1].outcome = "ok" => host[c][1] = "ok")
      BY DEF LoggedTruth, IInv, Report
    <2>1. Stage(c) /\ Report(c)
      BY DEF IInv
    <2>2. CASE job[c] = "none"
      BY <2>1, <2>2 DEF Stage, Report
    <2>3. CASE kind[c] = "single" /\ logged[c] = <<Line("handler_error")>>
      BY <2>3, LineOutcome
    <2>4. CASE job[c] = "done" /\ logged[c] = <<Line(Outcome(c))>>
      <3>1. Len(logged[c]) = 1 /\ logged[c][1].outcome = Outcome(c)
        BY <2>4, LineOutcome
      <3>2. CASE kind[c] = "multi"
        BY <3>1, <3>2 DEF Outcome, Failures
      <3>3. CASE kind[c] = "single"
        <4>1. host[c][1] \in Endings
          BY <2>1, <2>4, <3>3 DEF Stage, Hosts
        <4>. QED  BY <3>1, <3>3, <4>1 DEF Outcome, Endings
      <3>4. kind[c] \in {"single", "multi"}
        BY <2>1, <2>4 DEF Stage
      <3>. QED  BY <3>1, <3>2, <3>3, <3>4
    <2>. QED  BY <2>1, <2>2, <2>3, <2>4 DEF Report
  <1>. QED  BY <1>1, IInvHolds, PTL

\* However the hosts of a fan-out overlap and end, none of them makes the call
\* fail: each host has a context of its own, so none is entered twice
\* (server.py:225, 246-251).
THEOREM HostsNeverFailACall == Spec => []NoHostFailsTheCall
  <1>1. IInv => NoHostFailsTheCall
    BY DEF IInv, Stage, NoHostFailsTheCall
  <1>. QED  BY <1>1, IInvHolds, PTL

\* What is cancelled before its turn never reaches a host (server.py:300-314).
THEOREM DroppedStaysDropped == Spec => DroppedNeverRuns
  <1>1. IInv /\ [Next]_vars =>
          [\A c \in Calls : job[c] = "dropped" =>
               job'[c] = "dropped" /\ reached'[c] = {}]_vars
    <2>. SUFFICES ASSUME IInv, Next, NEW c \in Calls, job[c] = "dropped"
                  PROVE  job'[c] = "dropped" /\ reached'[c] = {}
      BY DEF vars
    <2>1. IInv'
      BY StepInv
    <2>2. call[c] = "cancelled"
      BY DEF IInv, Stage
    <2>3. job'[c] = "dropped"
      <3>1. CASE StartJob
        BY <3>1 DEF StartJob, IInv, TypeOK
      <3>2. ASSUME NEW d \in Calls, Client(d) \/ Resume(d) \/ Thread(d) \/ JobRaises(d)
            PROVE  job'[c] = "dropped"
        BY <2>2, <3>2 DEF Client, Refuse, Await, SubmitFails, Cancel, Enqueue, Resume,
             Thread, EndJob, StartHandler, EndHandler, JobRaises, IInv, TypeOK
      <3>. QED  BY <3>1, <3>2 DEF Next
    <2>4. \A h \in HostIds : host'[c][h] = "todo"
      BY <2>1, <2>3 DEF IInv, Stage
    <2>5. Hosts(c)' \subseteq HostIds
      BY <2>1, LimitsAssumption DEF IInv, TypeOK, Hosts, HostIds
    <2>. QED  BY <2>1, <2>3, <2>4, <2>5 DEF IInv, Stage
  <1>. QED  BY <1>1, IInvHolds, PTL DEF Spec, DroppedNeverRuns

\* Sizes of finite sets.
LEMMA SubsetSize ==
  ASSUME NEW S, IsFiniteSet(S), NEW T, T \subseteq S
  PROVE  /\ IsFiniteSet(T)
         /\ Cardinality(S) \in Nat /\ Cardinality(T) \in Nat
         /\ Cardinality(T) <= Cardinality(S)
  BY FS_Subset, FS_CardinalityType

LEMMA OneMoreSize ==
  ASSUME NEW S, IsFiniteSet(S), NEW x, NEW T, T \subseteq S \cup {x}
  PROVE  /\ Cardinality(S) \in Nat /\ Cardinality(T) \in Nat
         /\ Cardinality(T) <= Cardinality(S) + 1
  <1>1. /\ IsFiniteSet(S \cup {x}) /\ Cardinality(S) \in Nat
        /\ Cardinality(S \cup {x}) \in {Cardinality(S), Cardinality(S) + 1}
    BY FS_AddElement, FS_CardinalityType
  <1>2. /\ Cardinality(T) \in Nat
        /\ Cardinality(T) <= Cardinality(S \cup {x})
    BY <1>1, SubsetSize
  <1>. QED  BY <1>1, <1>2

LEMMA BusyFinite == IsFiniteSet(Busy) /\ Cardinality(Busy) \in Nat
  BY CallsAssumption, SubsetSize DEF Busy

LEMMA RunningFinite ==
  ASSUME TypeOK, NEW c \in Calls
  PROVE  IsFiniteSet(Running(c)) /\ Cardinality(Running(c)) \in Nat
  <1>1. Running(c) \subseteq 1..MaxHosts
    BY HostsInRange DEF Running, HostIds
  <1>2. IsFiniteSet(1..MaxHosts)
    BY LimitsAssumption, FS_Interval
  <1>. QED  BY <1>1, <1>2, SubsetSize

\* A step that makes no item busy and no handler run cannot break a bound.
LEMMA FewerKeepBounds ==
  ASSUME TypeOK, BoundedHandlers, threads' \in Nat, threads' >= threads,
         Busy' \subseteq Busy,
         \A c \in Calls : Running(c)' \subseteq Running(c),
         \A c \in Calls : Running(c)' # {} => c \in Busy'
  PROVE  BoundedHandlers'
  <1>1. Cardinality(Busy') <= Cardinality(Busy) /\ Cardinality(Busy') \in Nat
    BY BusyFinite, SubsetSize
  <1>2. Cardinality(Busy') <= threads'
    <2>1. threads \in Nat
      BY DEF TypeOK
    <2>. QED  BY <1>1, <2>1, BusyFinite DEF BoundedHandlers
  <1>3. ASSUME NEW c \in Calls
        PROVE  Cardinality(Running(c)') <= Parallelism
    <2>1. IsFiniteSet(Running(c)) /\ Cardinality(Running(c)) \in Nat
      BY RunningFinite
    <2>2. /\ Cardinality(Running(c)') <= Cardinality(Running(c))
          /\ Cardinality(Running(c)') \in Nat
      BY <2>1, SubsetSize
    <2>3. Cardinality(Running(c)) <= Parallelism
      BY DEF BoundedHandlers
    <2>. QED  BY <2>1, <2>2, <2>3, LimitsAssumption
  <1>. QED  BY <1>2, <1>3 DEF BoundedHandlers

LEMMA BoundsStep == IInv /\ BoundedHandlers /\ [Next]_vars => BoundedHandlers'
  <1>. SUFFICES ASSUME IInv, BoundedHandlers, [Next]_vars
                PROVE  BoundedHandlers'
    OBVIOUS
  <1>0. TypeOK /\ threads \in Nat /\ \A d \in Calls : Stage(d)
    BY DEF IInv, TypeOK
  <1>1. CASE StartJob
    <2>1. PICK c : c = Head(queue)
      OBVIOUS
    <2>2. c \in Calls
      BY <1>0, <1>1, <2>1 DEF StartJob, TypeOK
    <2>3. Busy \subseteq Busy' /\ Busy' \subseteq Busy \cup {c}
      BY <1>0, <1>1, <2>1, <2>2 DEF StartJob, Busy, TypeOK
    <2>4. Cardinality(Busy') <= Cardinality(Busy) + 1 /\ Cardinality(Busy') \in Nat
      BY <2>3, BusyFinite, OneMoreSize
    <2>5. Cardinality(Busy') <= threads /\ threads' = threads
      BY <1>0, <1>1, <2>4, BusyFinite DEF StartJob
    <2>6. \A d \in Calls : Running(d)' = Running(d)
      BY <1>1 DEF StartJob, Running, Hosts
    <2>. QED  BY <2>3, <2>5, <2>6 DEF BoundedHandlers
  <1>2. ASSUME NEW c \in Calls, NEW h \in HostIds, StartHandler(c, h)
        PROVE  BoundedHandlers'
    <2>1. Busy' = Busy /\ threads' = threads /\ c \in Busy
      BY <1>2 DEF StartHandler, Busy
    <2>2. PICK e : host' = [host EXCEPT ![c][h] = e]
      BY <1>2 DEF StartHandler
    <2>3. size' = size
      BY <1>2 DEF StartHandler
    <2>4. \A d \in Calls : d # c => Running(d)' = Running(d)
      BY <1>0, <2>2, <2>3 DEF Running, Hosts, TypeOK
    <2>5. Running(c)' \subseteq Running(c) \cup {h}
      <3>1. \A g \in HostIds : g # h => host'[c][g] = host[c][g]
        BY <1>0, <2>2 DEF TypeOK
      <3>2. Hosts(c)' = Hosts(c) /\ Hosts(c) \subseteq HostIds
        BY <1>0, <2>3, HostsInRange DEF Hosts
      <3>. QED  BY <3>1, <3>2 DEF Running
    <2>6. Cardinality(Running(c)') <= Parallelism
      <3>1. /\ Cardinality(Running(c)') <= Cardinality(Running(c)) + 1
            /\ Cardinality(Running(c)') \in Nat /\ Cardinality(Running(c)) \in Nat
        BY <1>0, <2>5, RunningFinite, OneMoreSize
      <3>2. Cardinality(Running(c)) < Parallelism
        BY <1>2 DEF StartHandler, WorkerFree
      <3>. QED  BY <3>1, <3>2, LimitsAssumption
    <2>. QED  BY <2>1, <2>4, <2>6 DEF BoundedHandlers
  <1>3. ASSUME NEW c \in Calls, NEW h \in HostIds, EndHandler(c, h)
        PROVE  BoundedHandlers'
    <2>1. Busy' = Busy /\ threads' = threads /\ size' = size
      BY <1>3 DEF EndHandler, Busy
    <2>2. PICK e \in Endings : host' = [host EXCEPT ![c][h] = e]
      BY <1>3 DEF EndHandler
    <2>3. ASSUME NEW d \in Calls
          PROVE  Running(d)' \subseteq Running(d)
      <3>1. \A g \in HostIds : host'[d][g] = "running" => host[d][g] = "running"
        BY <1>0, <2>2 DEF TypeOK, Endings
      <3>2. Hosts(d)' = Hosts(d) /\ Hosts(d) \subseteq HostIds
        BY <1>0, <2>1, HostsInRange DEF Hosts
      <3>. QED  BY <3>1, <3>2 DEF Running
    <2>4. \A d \in Calls : Running(d)' # {} => d \in Busy'
      BY <2>1, <2>3 DEF BoundedHandlers
    <2>. QED  BY <1>0, <2>1, <2>3, <2>4, FewerKeepBounds
  <1>4. ASSUME NEW c \in Calls, EndJob(c) \/ JobRaises(c)
        PROVE  BoundedHandlers'
    <2>1. threads' = threads /\ \A d \in Calls : Running(d)' = Running(d)
      BY <1>4 DEF EndJob, JobRaises, Running, Hosts
    <2>2. Running(c) = {} /\ Busy' = Busy \ {c}
      BY <1>0, <1>4 DEF EndJob, JobRaises, Busy, TypeOK
    <2>3. \A d \in Calls : Running(d)' # {} => d \in Busy'
      BY <2>1, <2>2 DEF BoundedHandlers
    <2>. QED  BY <1>0, <2>1, <2>2, <2>3, FewerKeepBounds
  <1>5. ASSUME NEW c \in Calls, Client(c) \/ Resume(c)
        PROVE  BoundedHandlers'
    <2>1. host' = host
      BY <1>5 DEF Client, Refuse, Await, SubmitFails, Cancel, Resume, Enqueue
    <2>2. threads' \in Nat /\ threads' >= threads
      BY <1>0, <1>5, LimitsAssumption
         DEF Client, Refuse, Await, SubmitFails, Cancel, Resume, ThreadsAfterSubmit
    <2>3. Busy' = Busy
      BY <1>0, <1>5 DEF Client, Refuse, Await, SubmitFails, Cancel, Resume, Enqueue,
                        Busy, TypeOK, Stage
    <2>4. ASSUME NEW d \in Calls
          PROVE  Running(d)' \subseteq Running(d)
      <3>1. TypeOK'
        BY StepInv DEF IInv
      <3>2. Hosts(d)' \subseteq HostIds
        BY <3>1, LimitsAssumption DEF TypeOK, Hosts, HostIds
      <3>3. \A h \in HostIds : host[d][h] = "running" => h \in Hosts(d)
        BY <1>0 DEF Stage
      <3>. QED  BY <2>1, <3>2, <3>3 DEF Running
    <2>5. \A d \in Calls : Running(d)' # {} => d \in Busy'
      BY <2>3, <2>4 DEF BoundedHandlers
    <2>. QED  BY <1>0, <2>2, <2>3, <2>4, <2>5, FewerKeepBounds
  <1>6. CASE UNCHANGED vars
    BY <1>6 DEF vars, BoundedHandlers, Busy, Running, Hosts
  <1>7. QED
    BY <1>1, <1>2, <1>3, <1>4, <1>5, <1>6 DEF Next, Thread

\* Whatever is cancelled, the handlers that run are bounded by the executor's
\* threads and the parallelism of a call (server.py:241-243, 300-314).
THEOREM HandlersAreBounded == Spec => []BoundedHandlers
  <1>1. Init => BoundedHandlers
    <2>. SUFFICES ASSUME Init PROVE BoundedHandlers
      OBVIOUS
    <2>1. Busy = {} /\ \A c \in Calls : Running(c) = {}
      BY DEF Init, Busy, Running, Hosts
    <2>2. Cardinality({}) = 0 /\ threads = 0 /\ 0 <= Parallelism
      BY FS_EmptySet, LimitsAssumption DEF Init
    <2>3. Cardinality(Busy) <= threads
      BY <2>1, <2>2
    <2>4. \A c \in Calls : Cardinality(Running(c)) <= Parallelism
      BY <2>1, <2>2
    <2>. QED  BY <2>1, <2>3, <2>4 DEF BoundedHandlers
  <1>. QED  BY <1>1, BoundsStep, IInvHolds, PTL DEF Spec
-----------------------------------------------------------------------------
(* Each call keeps the promise of HostCalls.                               *)

\* A call has hosts exactly when it has a work item.
Sized == \A c \in Calls : size[c] = 0 <=> job[c] = "none"

LEMMA SizedInit == Init => Sized
  BY DEF Init, Sized

LEMMA SizedStep == IInv /\ Sized /\ [Next]_vars => Sized'
  <1>. SUFFICES ASSUME IInv, Sized, [Next]_vars, NEW c \in Calls
                PROVE  (size[c] = 0 <=> job[c] = "none")'
    BY DEF Sized
  <1>. USE DEF IInv, TypeOK, Sized
  <1>1. CASE StartJob
    <2>1. /\ Head(queue) \in Calls /\ job[Head(queue)] \in {"queued", "dropped"}
      <3>1. Head(queue) = queue[1] /\ 1 \in 1..Len(queue)
        BY <1>1 DEF StartJob
      <3>. QED  BY <3>1 DEF Waiting
    <2>. QED  BY <1>1, <2>1 DEF StartJob
  <1>2. ASSUME NEW d \in Calls, Await(d) \/ SubmitFails(d)
        PROVE  (size[c] = 0 <=> job[c] = "none")'
    <2>1. PICK k \in {"single", "multi"}, n \in HostIds : Enqueue(d, k, n)
      BY <1>2 DEF Await, SubmitFails
    <2>2. n # 0
      BY LimitsAssumption DEF HostIds
    <2>. QED  BY <2>1, <2>2 DEF Enqueue
  <1>3. ASSUME NEW d \in Calls, Refuse(d) \/ Resume(d)
        PROVE  (size[c] = 0 <=> job[c] = "none")'
    BY <1>3 DEF Refuse, Resume
  <1>4. ASSUME NEW d \in Calls, Cancel(d)
        PROVE  (size[c] = 0 <=> job[c] = "none")'
    BY <1>4 DEF Cancel
  <1>5. ASSUME NEW d \in Calls, Thread(d) \/ JobRaises(d)
        PROVE  (size[c] = 0 <=> job[c] = "none")'
    BY <1>5 DEF Thread, EndJob, JobRaises, StartHandler, EndHandler
  <1>6. CASE UNCHANGED vars
    BY <1>6 DEF vars
  <1>. QED  BY <1>1, <1>2, <1>3, <1>4, <1>5, <1>6 DEF Next, Client

\* The promise is about the hosts of the call.
LEMMA PromisedHosts ==
  ASSUME NEW c \in Calls
  PROVE  /\ Promise(c)!Hosts = Hosts(c)
         /\ Promise(c)!Todo = Todo(c)
         /\ Promise(c)!Running = Running(c)
         /\ Promise(c)!HostIds = HostIds
         /\ Promise(c)!Endings = Endings
  BY DEF Promise!Hosts, Promise!Todo, Promise!Running, Promise!HostIds, Promise!Endings,
         Hosts, Todo, Running, HostIds, Endings

\* HostCalls counts as Dispatch does.
LEMMA SameCount ==
  ASSUME NEW c, NEW S
  PROVE  Promise(c)!Cardinality(S) = Cardinality(S)
  BY Zenon DEF Promise!Cardinality, Cardinality

\* A step of another call leaves a call's work alone.
LEMMA WorkAlone ==
  ASSUME NEW c \in Calls, size'[c] = size[c], job'[c] = job[c], host'[c] = host[c]
  PROVE  UNCHANGED Promise(c)!vars
  BY DEF Promise!vars, Status

LEMMA PromiseInit == ASSUME Init, NEW c \in Calls PROVE Promise(c)!Init
  BY LimitsAssumption DEF Init, Promise!Init, Promise!HostIds, Status, HostIds

LEMMA PromiseStep ==
  ASSUME IInv, Sized, [Next]_vars, NEW c \in Calls
  PROVE  Promise(c)!Next \/ UNCHANGED Promise(c)!vars
  <1>0. TypeOK /\ Waiting /\ Stage(c) /\ (size[c] = 0 <=> job[c] = "none")
    BY DEF IInv, Sized
  <1>1. CASE StartJob
    <2>1. Head(queue) \in Calls /\ job[Head(queue)] \in {"queued", "dropped"}
      <3>1. Head(queue) = queue[1] /\ 1 \in 1..Len(queue)
        BY <1>0, <1>1 DEF StartJob, TypeOK
      <3>. QED  BY <1>0, <3>1 DEF Waiting, TypeOK
    <2>2. Status(c)' = Status(c)
      BY <1>0, <1>1, <2>1 DEF StartJob, TypeOK, Status
    <2>. QED  BY <1>1, <2>2 DEF StartJob, Promise!vars
  <1>2. ASSUME NEW d \in Calls, Await(d) \/ SubmitFails(d)
        PROVE  Promise(c)!Next \/ UNCHANGED Promise(c)!vars
    <2>1. PICK k \in {"single", "multi"}, n \in HostIds : Enqueue(d, k, n)
      BY <1>2 DEF Await, SubmitFails
    <2>2. CASE c = d
      <3>1. job[c] = "none" /\ size[c] = 0 /\ Status(c) = "open"
        BY <1>0, <2>1, <2>2 DEF Enqueue, Stage, Status
      <3>2. Status(c)' = "open" /\ size'[c] = n /\ host' = host
        BY <1>0, <2>1, <2>2 DEF Enqueue, TypeOK, Status
      <3>3. Promise(c)!Ask
        BY <3>1, <3>2, PromisedHosts DEF Promise!Ask
      <3>. QED  BY <3>3 DEF Promise!Next
    <2>3. CASE c # d
      BY <1>0, <2>1, <2>3, WorkAlone DEF Enqueue, TypeOK
    <2>. QED  BY <2>2, <2>3
  <1>3. ASSUME NEW d \in Calls, Refuse(d) \/ Resume(d)
        PROVE  UNCHANGED Promise(c)!vars
    BY <1>3, WorkAlone DEF Refuse, Resume
  <1>4. ASSUME NEW d \in Calls, Cancel(d)
        PROVE  Promise(c)!Next \/ UNCHANGED Promise(c)!vars
    <2>1. CASE c = d /\ job[c] = "queued"
      <3>1. Status(c) = "open" /\ Status(c)' = "dropped" /\ size' = size /\ host' = host
        BY <1>0, <1>4, <2>1 DEF Cancel, TypeOK, Status
      <3>2. size[c] # 0 /\ Todo(c) = Hosts(c)
        BY <1>0, <2>1, HostsInRange DEF Stage, Todo
      <3>3. Promise(c)!Drop
        BY <3>1, <3>2, PromisedHosts DEF Promise!Drop
      <3>. QED  BY <3>3 DEF Promise!Next
    <2>2. CASE ~(c = d /\ job[c] = "queued")
      BY <1>0, <1>4, <2>2, WorkAlone DEF Cancel, TypeOK
    <2>. QED  BY <2>1, <2>2
  <1>5. ASSUME NEW d \in Calls, NEW h \in HostIds, StartHandler(d, h)
        PROVE  Promise(c)!Next \/ UNCHANGED Promise(c)!vars
    <2>1. CASE c = d
      <3>1. h \notin Running(c) /\ h \in Todo(c) /\ \A g \in Todo(c) : h <= g
        BY <1>5, <2>1 DEF StartHandler, Running, Todo
      <3>2. \A g \in Running(c) : Home(c, g) # Home(c, h)
        BY <3>1 DEF Home
      <3>3. host'[c] = [host[c] EXCEPT ![h] = "running"]
        BY <1>0, <1>5, <2>1, <3>2 DEF StartHandler, TypeOK
      <3>4. Status(c) = "open" /\ Status(c)' = "open" /\ size' = size
        BY <1>5, <2>1 DEF StartHandler, Status
      <3>5. Cardinality(Running(c)) < Parallelism
        BY <1>5, <2>1 DEF StartHandler, WorkerFree
      <3>6. Promise(c)!Begin(h)
        BY <3>1, <3>3, <3>4, <3>5, PromisedHosts, SameCount DEF Promise!Begin
      <3>. QED  BY <3>6, PromisedHosts DEF Promise!Next
    <2>2. CASE c # d
      BY <1>0, <1>5, <2>2, WorkAlone DEF StartHandler, TypeOK
    <2>. QED  BY <2>1, <2>2
  <1>6. ASSUME NEW d \in Calls, NEW h \in HostIds, EndHandler(d, h)
        PROVE  Promise(c)!Next \/ UNCHANGED Promise(c)!vars
    <2>1. CASE c = d
      <3>1. PICK e \in Endings : host'[c] = [host[c] EXCEPT ![h] = e]
        BY <1>0, <1>6, <2>1 DEF EndHandler, TypeOK
      <3>2. h \in Running(c) /\ job[c] = "running"
        BY <1>0, <1>6, <2>1 DEF EndHandler, Running, Stage
      <3>3. Status(c) = "open" /\ Status(c)' = "open" /\ size' = size
        BY <1>6, <3>2 DEF EndHandler, Status
      <3>4. Promise(c)!End(h)
        BY <3>1, <3>2, <3>3, PromisedHosts DEF Promise!End
      <3>. QED  BY <3>4, PromisedHosts DEF Promise!Next
    <2>2. CASE c # d
      BY <1>0, <1>6, <2>2, WorkAlone DEF EndHandler, TypeOK
    <2>. QED  BY <2>1, <2>2
  <1>7. ASSUME NEW d \in Calls, EndJob(d)
        PROVE  Promise(c)!Next \/ UNCHANGED Promise(c)!vars
    <2>1. CASE c = d
      <3>0. job'[c] = "done"
        <4>1. \A h \in Hosts(c) : host[c][h] # "unentered"
          BY <1>0, HostsInRange DEF Stage
        <4>. QED  BY <1>0, <1>7, <2>1, <4>1 DEF EndJob, TypeOK
      <3>1. Status(c) = "open" /\ Status(c)' = "done" /\ size' = size /\ host' = host
        BY <1>7, <2>1, <3>0 DEF EndJob, Status
      <3>2. size[c] # 0 /\ Todo(c) = {} /\ Running(c) = {}
        BY <1>0, <1>7, <2>1 DEF EndJob
      <3>3. Promise(c)!Done
        BY <3>1, <3>2, PromisedHosts DEF Promise!Done
      <3>. QED  BY <3>3 DEF Promise!Next
    <2>2. CASE c # d
      BY <1>0, <1>7, <2>2, WorkAlone DEF EndJob, TypeOK
    <2>. QED  BY <2>1, <2>2
  <1>8. ASSUME NEW d \in Calls, JobRaises(d)
        PROVE  Promise(c)!Next \/ UNCHANGED Promise(c)!vars
    <2>1. CASE c = d
      <3>1. Status(c) = "open" /\ Status(c)' = "raised" /\ size' = size /\ host' = host
        BY <1>0, <1>8, <2>1 DEF JobRaises, TypeOK, Status
      <3>2. size[c] # 0 /\ Running(c) = {} /\ (size[c] > 1 \/ Todo(c) # {})
        BY <1>0, <1>8, <2>1 DEF JobRaises
      <3>3. Promise(c)!Raise
        BY <3>1, <3>2, PromisedHosts DEF Promise!Raise
      <3>. QED  BY <3>3 DEF Promise!Next
    <2>2. CASE c # d
      BY <1>0, <1>8, <2>2, WorkAlone DEF JobRaises, TypeOK
    <2>. QED  BY <2>1, <2>2
  <1>9. CASE UNCHANGED vars
    BY <1>9, WorkAlone DEF vars
  <1>. QED
    BY <1>1, <1>2, <1>3, <1>4, <1>5, <1>6, <1>7, <1>8, <1>9 DEF Next, Client, Thread

\* However many calls there are and whatever their clients do, the work of each
\* is that of HostCalls, as it is for a fan-out alone (FanOutKeepsPromise): a
\* call that is cancelled before its turn never begins, and no call's work goes
\* on after it is done (server.py:239-251, 300-314).
THEOREM CallsKeepPromise == Spec => HostCallsKept
  <1>1. Init => \A c \in Calls : Promise(c)!Init
    BY PromiseInit
  <1>2. IInv /\ Sized /\ [Next]_vars =>
          [\A c \in Calls : Promise(c)!Next \/ UNCHANGED Promise(c)!vars]_vars
    BY PromiseStep
  <1>. QED
    BY <1>1, <1>2, SizedInit, SizedStep, IInvHolds, PTL DEF Spec, HostCallsKept
=============================================================================
