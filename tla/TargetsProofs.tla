--------------------------- MODULE TargetsProofs ---------------------------
(***************************************************************************)
(* Theorems about Targets, for every set of names, every allowlist, every  *)
(* pair of limits and lists of every length.                               *)
(***************************************************************************)
EXTENDS Targets, SequenceTheorems, TLAPS

-----------------------------------------------------------------------------
(* The arguments and the numbers.                                          *)

LEMMA ListTyped ==
    ASSUME args \in Args
    PROVE  /\ List \in Seq(Names)
           /\ Len(List) \in 0..MaxLen
           /\ \A k \in 1..Len(List) : List[k] \in Names
  <1>1. CASE List = <<>>
    BY <1>1, LimitsAssumption
  <1>2. CASE List \in Lists
    <2>1. PICK n \in 0..MaxLen : List \in [1..n -> Names]
      BY <1>2 DEF Lists
    <2>2. n \in Nat
      BY <2>1, LimitsAssumption
    <2>3. List \in Seq(Names) /\ Len(List) = n
      BY <2>1, <2>2, SeqDef, LenProperties
    <2>. QED  BY <2>1, <2>2, <2>3
  <1>3. List = <<>> \/ List \in Lists
    BY DEF Args, List
  <1>. QED  BY <1>1, <1>2, <1>3

\* A number of the environment gives a limit between one and the hard limit.
LEMMA NumberInRange ==
    ASSUME NEW x \in Numbers, NEW d \in 1..HardMax
    PROVE  Number(x, d) \in 1..HardMax
  <1>1. CASE x.kind # "int" \/ x.n < 1
    BY <1>1 DEF Number
  <1>2. CASE x.kind = "int" /\ ~ x.n < 1
    <2>1. x.n \in Int /\ x.n >= 1
      BY <1>2, LimitsAssumption DEF Numbers
    <2>2. Number(x, d) = LesserOf(x.n, HardMax)
      BY <1>2 DEF Number
    <2>. QED  BY <2>1, <2>2, LimitsAssumption DEF LesserOf
  <1>. QED  BY <1>1, <1>2

LEMMA LimitInRange ==
    ASSUME env \in Envs
    PROVE  Limit \in 1..HardMax
  BY NumberInRange, LimitsAssumption DEF Limit, Envs

LEMMA WorkersInRange ==
    ASSUME env \in Envs, out \in Seq(Wellformed), Len(out) >= 1
    PROVE  Workers \in 1..Len(out)
  <1>1. Number(env.par, DefaultPar) \in 1..HardMax
    BY NumberInRange, LimitsAssumption DEF Envs
  <1>2. Len(out) \in Nat
    BY LenProperties
  <1>. QED  BY <1>1, <1>2, LimitsAssumption DEF Workers, LesserOf

\* The index at which the list first has a host is the only one of its kind.
LEMMA FirstIsFirst ==
    ASSUME args \in Args, NEW h, NEW k \in 1..Len(List), FirstAt(k, h)
    PROVE  First(h) = k
  <1>1. Len(List) \in Nat
    BY ListTyped, LimitsAssumption
  <1>2. \A m \in 1..Len(List) : FirstAt(m, h) => m = k
    <2>. SUFFICES ASSUME NEW m \in 1..Len(List), FirstAt(m, h)
                  PROVE  m = k
      OBVIOUS
    <2>1. ~ m < k /\ ~ k < m
      BY <1>1 DEF FirstAt
    <2>. QED  BY <1>1, <2>1
  <1>. QED  BY <1>2 DEF First, FirstAt

-----------------------------------------------------------------------------
(* The invariant is inductive.                                             *)

LEMMA IInvInit == Init => IInv
  <1>. SUFFICES ASSUME Init PROVE IInv
    OBVIOUS
  <1>1. TypeOK
    BY ListTyped, LimitsAssumption DEF Init, TypeOK
  <1>2. Gathered /\ Stages
    BY DEF Init, Gathered, Stages, Verdicts
  <1>3. \E f \in [1..Len(out) -> 1..MaxLen] : InOrder(f)
    <2>1. 1..Len(out) = {}
      BY DEF Init
    <2>2. [k \in 1..Len(out) |-> 1] \in [1..Len(out) -> 1..MaxLen]
      BY <2>1
    <2>3. InOrder([k \in 1..Len(out) |-> 1])
      BY <2>1 DEF InOrder
    <2>. QED  BY <2>2, <2>3
  <1>. QED  BY <1>1, <1>2, <1>3 DEF IInv

\* Nothing that is not primed here changes.
LEMMA Unchanged ==
    ASSUME UNCHANGED <<args, env>>
    PROVE  /\ List' = List /\ Limit' = Limit /\ (HostGiven' <=> HostGiven)
           /\ \A h : Valid(h)' <=> Valid(h)
           /\ Acceptable' <=> Acceptable
  BY DEF List, Limit, Number, HostGiven, Valid, Acceptable

LEMMA ResolveStep == IInv /\ Resolve => IInv'
  <1>. SUFFICES ASSUME IInv, Resolve PROVE IInv'
    OBVIOUS
  <1>1. i = 0 /\ out = <<>> /\ UNCHANGED <<args, env, i, seen>>
    BY DEF IInv, Stages, Resolve
  <1>s. seen = {}
    BY <1>1 DEF IInv, Gathered
  <1>2. /\ List' = List /\ Limit' = Limit /\ (Acceptable' <=> Acceptable)
        /\ (HostGiven' <=> HostGiven)
    BY <1>1, Unchanged
  <1>3. \/ pc' = "rejected" /\ out' = <<>> /\ ~Acceptable
        \/ pc' = "loop" /\ out' = <<>> /\ args.hosts.kind = "list" /\ ~HostGiven
           /\ List # <<>> /\ Len(List) <= Limit
        \/ pc' = "single" /\ out' = <<args.host>> /\ Valid(args.host) /\ Acceptable
    <2>1. args.hosts.kind \in {"none", "other", "list"}
      BY DEF IInv, TypeOK, Args
    <2>2. Len(List) \in Nat /\ Limit \in Nat
      BY ListTyped, LimitInRange, LimitsAssumption DEF IInv, TypeOK
    <2>3. CASE args.hosts.kind # "none" /\ HostGiven
      <3>1. pc' = "rejected"
        BY <2>3 DEF Resolve
      <3>2. ~Acceptable
        BY <2>3 DEF Acceptable
      <3>. QED  BY <1>1, <3>1, <3>2 DEF Resolve
    <2>4. CASE args.hosts.kind = "other" /\ ~HostGiven
      <3>1. pc' = "rejected"
        BY <2>4 DEF Resolve
      <3>2. ~Acceptable
        BY <2>4 DEF Acceptable
      <3>. QED  BY <1>1, <3>1, <3>2 DEF Resolve
    <2>5. CASE args.hosts.kind = "list" /\ ~HostGiven
      <3>1. pc' = IF List = <<>> \/ Len(List) > Limit THEN "rejected" ELSE "loop"
        BY <2>5 DEF Resolve
      <3>2. List = <<>> \/ Len(List) > Limit => ~Acceptable
        BY <2>2, <2>5 DEF Acceptable
      <3>. QED  BY <1>1, <2>2, <2>5, <3>1, <3>2 DEF Resolve
    <2>6. CASE args.hosts.kind = "none" /\ HostGiven
      <3>1. pc' = IF Valid(args.host) THEN "single" ELSE "rejected"
        BY <2>6 DEF Resolve
      <3>2. Acceptable <=> Valid(args.host)
        BY <2>6 DEF Acceptable
      <3>. QED  BY <1>1, <3>1, <3>2 DEF Resolve
    <2>7. CASE args.hosts.kind = "none" /\ ~HostGiven
      <3>1. pc' = "rejected"
        BY <2>7 DEF Resolve
      <3>2. ~Acceptable
        BY <2>7 DEF Acceptable
      <3>. QED  BY <1>1, <3>1, <3>2 DEF Resolve
    <2>. QED  BY <2>1, <2>3, <2>4, <2>5, <2>6, <2>7
  <1>4. TypeOK'
    <2>1. out' \in Seq(Wellformed)
      <3>1. <<>> \in Seq(Wellformed)
        OBVIOUS
      <3>2. Valid(args.host) => <<args.host>> \in Seq(Wellformed)
        BY DEF Valid
      <3>. QED  BY <1>3, <3>1, <3>2
    <2>. QED  BY <1>1, <1>2, <1>3, <2>1 DEF IInv, TypeOK, Verdicts
  <1>5. Gathered'
    BY <1>1, <1>s, <1>2, <1>3 DEF Gathered
  <1>6. Stages'
    BY <1>1, <1>2, <1>3 DEF Stages, HostGiven
  <1>7. (pc # "single" => \E f \in [1..Len(out) -> 1..MaxLen] : InOrder(f))'
    <2>. SUFFICES ASSUME pc' # "single"
                  PROVE  \E f \in [1..Len(out') -> 1..MaxLen] : InOrder(f)'
      OBVIOUS
    <2>1. 1..Len(out') = {}
      BY <1>3
    <2>2. [k \in {} |-> 1] \in [{} -> 1..MaxLen]
      OBVIOUS
    <2>3. InOrder([k \in {} |-> 1])'
      BY <2>1 DEF InOrder
    <2>. QED  BY <2>1, <2>2, <2>3
  <1>. QED  BY <1>4, <1>5, <1>6, <1>7 DEF IInv

\* A host that is let through, seen before or not.
LEMMA CheckStep == IInv /\ Check => IInv'
  <1>. SUFFICES ASSUME IInv, Check PROVE IInv'
    OBVIOUS
  <1>1. /\ pc = "loop" /\ i < Len(List) /\ UNCHANGED <<args, env>>
        /\ args.hosts.kind = "list" /\ ~HostGiven
        /\ List # <<>> /\ Len(List) <= Limit
    BY DEF Check, IInv, Stages
  <1>2. /\ List' = List /\ Limit' = Limit /\ (HostGiven' <=> HostGiven)
        /\ (Acceptable' <=> Acceptable)
        /\ \A h : Valid(h)' <=> Valid(h)
    BY <1>1, Unchanged
  <1>3. /\ Len(List) \in Nat /\ Len(List) <= MaxLen /\ MaxLen \in Nat
        /\ i \in Nat /\ i + 1 \in 1..Len(List)
    BY <1>1, ListTyped, LimitsAssumption DEF IInv, TypeOK
  <1>4. /\ out \in Seq(Wellformed) /\ Len(out) \in Nat /\ Len(out) <= i
        /\ seen = {out[k] : k \in 1..Len(out)}
        /\ seen = {List[k] : k \in 1..i}
        /\ \A k \in 1..i : Valid(List[k])
    BY <1>1, LenProperties DEF IInv, TypeOK, Stages, Gathered
  <1>5. PICK f \in [1..Len(out) -> 1..MaxLen] : InOrder(f)
    BY <1>1 DEF IInv
  <1>a. /\ \A k \in 1..Len(out) : f[k] \in 1..i /\ FirstAt(f[k], out[k])
        /\ \A j, k \in 1..Len(out) : j < k => f[j] < f[k]
    BY <1>5 DEF InOrder
  <1>b. \A k, h : FirstAt(k, h)' <=> FirstAt(k, h)
    BY <1>2 DEF FirstAt
  <1>6. CASE ~Valid(List[i + 1])
    <2>1. pc' = "rejected" /\ UNCHANGED <<i, out, seen>>
      BY <1>6 DEF Check
    <2>2. ~Acceptable
      BY <1>1, <1>3, <1>6 DEF Acceptable
    <2>3. TypeOK'
      BY <1>1, <1>2, <2>1 DEF IInv, TypeOK, Verdicts
    <2>4. Gathered'
      BY <1>1, <1>2, <1>4, <2>1 DEF Gathered
    <2>5. Stages'
      BY <1>1, <1>2, <1>4, <2>1, <2>2 DEF IInv, Stages
    <2>6. InOrder(f)'
      BY <1>a, <1>b, <2>1 DEF InOrder
    <2>. QED  BY <1>5, <2>1, <2>3, <2>4, <2>5, <2>6 DEF IInv
  <1>7. CASE Valid(List[i + 1])
    <2>1. /\ i' = i + 1 /\ pc' = pc
          /\ seen' = seen \cup {List[i + 1]}
          /\ out' = IF List[i + 1] \in seen THEN out ELSE Append(out, List[i + 1])
      BY <1>7 DEF Check
    <2>2. List[i + 1] \in Wellformed
      BY <1>7 DEF Valid
    <2>3. /\ out' \in Seq(Wellformed) /\ Len(out') <= i' /\ Len(out') \in Nat
          /\ \A k \in 1..Len(out) : out'[k] = out[k]
      BY <1>3, <1>4, <2>1, <2>2, AppendProperties, LenProperties
    <2>4. TypeOK'
      BY <1>1, <1>2, <1>3, <2>1, <2>2, <2>3 DEF IInv, TypeOK
    <2>5. seen' = {List[k] : k \in 1..i'}
      BY <1>3, <1>4, <2>1
    <2>6. seen' = {out'[k] : k \in 1..Len(out')}
      <3>1. CASE List[i + 1] \in seen
        BY <1>4, <2>1, <3>1
      <3>2. CASE List[i + 1] \notin seen
        <4>1. /\ Len(out') = Len(out) + 1
              /\ out'[Len(out) + 1] = List[i + 1]
          <5>1. out' = Append(out, List[i + 1])
            BY <2>1, <3>2
          <5>. QED  BY <1>4, <2>2, <5>1, AppendProperties
        <4>2. 1..Len(out') = 1..Len(out) \cup {Len(out) + 1}
          BY <1>4, <4>1
        <4>3. {out'[k] : k \in 1..Len(out')}
              = {out'[k] : k \in 1..Len(out)} \cup {out'[Len(out) + 1]}
          BY <4>2
        <4>4. {out'[k] : k \in 1..Len(out)} = {out[k] : k \in 1..Len(out)}
          BY <2>3
        <4>. QED  BY <1>4, <2>1, <4>1, <4>3, <4>4
      <3>. QED  BY <3>1, <3>2
    <2>7. \A k \in 1..i' : Valid(List[k])
      BY <1>3, <1>4, <1>7, <2>1
    <2>8. Gathered'
      BY <1>2, <2>5, <2>6, <2>7 DEF Gathered
    <2>9. Stages'
      <3>1. Len(out') > 0
        <4>1. List[i + 1] \in seen'
          BY <2>1
        <4>. QED  BY <2>3, <2>6, <4>1
      <3>. QED  BY <1>1, <1>2, <1>3, <2>1, <2>3, <3>1 DEF Stages
    <2>10. \E g \in [1..Len(out') -> 1..MaxLen] : InOrder(g)'
      <3>1. CASE List[i + 1] \in seen
        <4>1. out' = out
          BY <2>1, <3>1
        <4>2. InOrder(f)'
          BY <1>3, <1>a, <1>b, <2>1, <4>1 DEF InOrder
        <4>. QED  BY <1>5, <4>1, <4>2
      <3>2. CASE List[i + 1] \notin seen
        <4>1. /\ Len(out') = Len(out) + 1
              /\ out'[Len(out) + 1] = List[i + 1]
          <5>1. out' = Append(out, List[i + 1])
            BY <2>1, <3>2
          <5>. QED  BY <1>4, <2>2, <5>1, AppendProperties
        <4>2. FirstAt(i + 1, List[i + 1])
          <5>1. \A j \in 1..i : List[j] # List[i + 1]
            BY <1>4, <3>2
          <5>. QED  BY <1>3, <5>1 DEF FirstAt
        <4>3. PICK g \in [1..(Len(out) + 1) -> 1..MaxLen] :
                     /\ g[Len(out) + 1] = i + 1
                     /\ \A k \in 1..Len(out) : g[k] = f[k]
          <5>. DEFINE e == [k \in 1..(Len(out) + 1) |-> IF k = Len(out) + 1 THEN i + 1 ELSE f[k]]
          <5>1. /\ e \in [1..(Len(out) + 1) -> 1..MaxLen]
                /\ e[Len(out) + 1] = i + 1
                /\ \A k \in 1..Len(out) : e[k] = f[k]
            BY <1>3, <1>4, <1>5
          <5>. QED  BY <5>1
        <4>4. \A k \in 1..(Len(out) + 1) : g[k] \in 1..(i + 1) /\ FirstAt(g[k], out'[k])
          <5>. TAKE k \in 1..(Len(out) + 1)
          <5>1. CASE k = Len(out) + 1
            BY <1>3, <4>1, <4>2, <4>3, <5>1
          <5>2. CASE k \in 1..Len(out)
            BY <1>3, <1>a, <2>3, <4>3, <5>2
          <5>. QED  BY <1>4, <5>1, <5>2
        <4>5. \A j, k \in 1..(Len(out) + 1) : j < k => g[j] < g[k]
          <5>. SUFFICES ASSUME NEW j \in 1..(Len(out) + 1), NEW k \in 1..(Len(out) + 1), j < k
                        PROVE  g[j] < g[k]
            OBVIOUS
          <5>1. j \in 1..Len(out) /\ g[j] = f[j] /\ f[j] \in 1..i
            BY <1>4, <1>a, <4>3
          <5>2. CASE k = Len(out) + 1
            BY <1>3, <4>3, <5>1, <5>2
          <5>3. CASE k \in 1..Len(out)
            BY <1>a, <4>3, <5>1, <5>3
          <5>. QED  BY <1>4, <5>2, <5>3
        <4>6. InOrder(g)'
          BY <1>b, <2>1, <4>1, <4>4, <4>5 DEF InOrder
        <4>7. g \in [1..Len(out') -> 1..MaxLen]
          BY <4>1, <4>3
        <4>. QED  BY <4>6, <4>7
      <3>. QED  BY <3>1, <3>2
    <2>. QED  BY <2>4, <2>8, <2>9, <2>10 DEF IInv
  <1>. QED  BY <1>6, <1>7

LEMMA ReturnStep == IInv /\ Return => IInv'
  <1>. SUFFICES ASSUME IInv, Return PROVE IInv'
    OBVIOUS
  <1>1. pc = "loop" /\ i = Len(List) /\ pc' = "multi" /\ UNCHANGED <<args, env, i, out, seen>>
    BY DEF Return
  <1>2. /\ List' = List /\ Limit' = Limit /\ (HostGiven' <=> HostGiven)
        /\ (Acceptable' <=> Acceptable)
        /\ \A h : Valid(h)' <=> Valid(h)
    BY <1>1, Unchanged
  <1>3. Acceptable
    BY <1>1 DEF IInv, Stages, Gathered, Acceptable
  <1>4. TypeOK' /\ Gathered'
    BY <1>1, <1>2 DEF IInv, TypeOK, Gathered, Verdicts
  <1>5. Stages'
    BY <1>1, <1>2, <1>3 DEF IInv, Stages
  <1>6. PICK f \in [1..Len(out) -> 1..MaxLen] : InOrder(f)
    BY <1>1 DEF IInv
  <1>7. InOrder(f)'
    BY <1>1, <1>2, <1>6 DEF InOrder, FirstAt
  <1>. QED  BY <1>1, <1>4, <1>5, <1>6, <1>7 DEF IInv

LEMMA StutterStep == IInv /\ UNCHANGED vars => IInv'
  <1>. SUFFICES ASSUME IInv, UNCHANGED vars PROVE IInv'
    OBVIOUS
  <1>1. UNCHANGED <<args, env, pc, i, out, seen>>
    BY DEF vars
  <1>2. /\ List' = List /\ Limit' = Limit /\ (HostGiven' <=> HostGiven)
        /\ (Acceptable' <=> Acceptable)
        /\ \A h : Valid(h)' <=> Valid(h)
    BY <1>1, Unchanged
  <1>3. TypeOK' /\ Gathered' /\ Stages'
    BY <1>1, <1>2 DEF IInv, TypeOK, Gathered, Stages
  <1>4. \A f : InOrder(f) => InOrder(f)'
    BY <1>1, <1>2 DEF InOrder, FirstAt
  <1>. QED  BY <1>1, <1>3, <1>4 DEF IInv

\* In every reachable state the invariant holds.
THEOREM IInvHolds == Spec => []IInv
  <1>1. IInv /\ [Next]_vars => IInv'
    BY ResolveStep, CheckStep, ReturnStep, StutterStep DEF Next
  <1>. QED  BY IInvInit, <1>1, PTL DEF Spec

-----------------------------------------------------------------------------
(* What follows from it.                                                   *)

\* Every variable keeps its kind of value, and no malformed name is gathered,
\* however long the list (validate.py:103-122).
THEOREM TypeCorrect == Spec => []TypeOK
  <1>1. IInv => TypeOK
    BY DEF IInv
  <1>. QED  BY <1>1, IInvHolds, PTL

\* The hosts of a fan-out are those of the list, once each, in its order
\* (validate.py:115-122).
THEOREM HostsAreDeduped == Spec => []DedupedInOrder
  <1>1. IInv => DedupedInOrder
    <2>. SUFFICES ASSUME IInv, pc = "multi"
                  PROVE  /\ {out[k] : k \in 1..Len(out)} = {List[k] : k \in 1..Len(List)}
                         /\ \A j, k \in 1..Len(out) : j < k => First(out[j]) < First(out[k])
      BY DEF DedupedInOrder
    <2>1. i = Len(List) /\ seen = {List[k] : k \in 1..i}
          /\ seen = {out[k] : k \in 1..Len(out)}
      BY DEF IInv, Stages, Gathered
    <2>2. PICK f \in [1..Len(out) -> 1..MaxLen] : InOrder(f)
      BY DEF IInv
    <2>3. \A k \in 1..Len(out) : First(out[k]) = f[k]
      BY <2>1, <2>2, FirstIsFirst DEF InOrder, IInv, TypeOK
    <2>. QED  BY <2>1, <2>2, <2>3 DEF InOrder
  <1>. QED  BY <1>1, IInvHolds, PTL

\* A call is taken exactly when all that it says is acceptable
\* (validate.py:58-70, 103-135).
THEOREM TakenWholeOrNotAtAll == Spec => []AllOrNothing
  <1>1. IInv => AllOrNothing
    BY DEF IInv, Stages, AllOrNothing, Verdicts
  <1>. QED  BY <1>1, IInvHolds, PTL

\* No call is given more hosts than the hard limit, or has more workers than
\* hosts, whatever the environment says (validate.py:74-100, server.py:241).
THEOREM LimitsHold == Spec => []WithinHardMax
  <1>1. IInv => WithinHardMax
    <2>. SUFFICES ASSUME IInv PROVE WithinHardMax
      OBVIOUS
    <2>1. CASE pc = "single"
      <3>1. out = <<args.host>>
        BY <2>1 DEF IInv, Stages
      <3>2. Len(out) = 1 /\ 1 \in 1..HardMax
        BY <3>1, LimitsAssumption
      <3>. QED  BY <2>1, <3>2 DEF WithinHardMax
    <2>2. CASE pc = "multi"
      <3>1. Len(List) \in Nat /\ Limit \in 1..HardMax /\ HardMax \in Nat
        BY ListTyped, LimitInRange, LimitsAssumption DEF IInv, TypeOK
      <3>2. /\ i = Len(List) /\ Len(List) <= Limit /\ List # <<>>
            /\ Len(out) <= i /\ (i > 0 => Len(out) > 0)
        BY <2>2 DEF IInv, Stages
      <3>3. Len(List) > 0 /\ Len(out) \in Nat
        BY <3>1, <3>2, ListTyped, EmptySeq, LenProperties DEF IInv, TypeOK
      <3>4. Len(out) \in 1..HardMax /\ Len(List) \in Len(out)..HardMax
        BY <3>1, <3>2, <3>3
      <3>5. Workers \in 1..Len(out)
        BY <3>3, <3>2, WorkersInRange DEF IInv, TypeOK
      <3>. QED  BY <3>4, <3>5, <2>2 DEF WithinHardMax
    <2>3. CASE pc \notin {"single", "multi"}
      BY <2>3 DEF WithinHardMax
    <2>. QED  BY <2>1, <2>2, <2>3
  <1>. QED  BY <1>1, IInvHolds, PTL
=============================================================================
