------------------------------ MODULE Targets ------------------------------
(***************************************************************************)
(* Which hosts a call goes to (src/linux_info_mcp/validate.py):            *)
(* resolve_target_hosts, validate_host_list with its loop, validate_host,  *)
(* and the limits read from the environment.  What comes out is what       *)
(* FanOut starts from: its hosts and its parallelism.                      *)
(***************************************************************************)
EXTENDS Integers, Sequences

CONSTANTS Names,        \* strings a caller may give as a host
          Wellformed,   \* those that are not empty, have no blank or control
                        \* character and do not start with "-"
          HardMax,      \* HARD_MAX_HOSTS
          DefaultMax,   \* DEFAULT_MAX_HOSTS
          DefaultPar,   \* DEFAULT_PARALLELISM
          NoHost,       \* the host argument when it is not given
          MaxLen,       \* bound: the longest list given
          MaxEnv        \* bound: the largest number in the environment

ASSUME NamesAssumption == Wellformed \subseteq Names /\ NoHost \notin Names
ASSUME LimitsAssumption ==
    /\ HardMax \in Nat
    /\ DefaultMax \in 1..HardMax
    /\ DefaultPar \in 1..HardMax
    /\ MaxLen \in Nat /\ MaxEnv \in Nat

VARIABLES
    args,    \* the arguments: host and hosts, each given or not
    env,     \* the environment: the hosts LINUX_INFO_HOSTS allows (all if it
             \* is not set), LINUX_INFO_MAX_HOSTS, LINUX_INFO_PARALLELISM
    pc,      \* "resolve", "loop", then one of Verdicts
    i,       \* hosts of the list looked at
    out,     \* the list made of them
    seen     \* the set made of them

vars == <<args, env, pc, i, out, seen>>

Verdicts == {"single", "multi", "rejected"}

\* A variable of the environment that holds an integer, or none.
Numbers == [kind : {"none"}, n : {0}] \cup [kind : {"int"}, n : 0..MaxEnv]
Envs == [allowed : SUBSET Names, max : Numbers, par : Numbers]

\* hosts is null, a list, or something else; lists are cut off at MaxLen.
Lists == UNION {[1..k -> Names] : k \in 0..MaxLen}
Args == [host  : Names \cup {NoHost},
         hosts : [kind : {"none", "other"}, list : {<<>>}] \cup [kind : {"list"}, list : Lists]]

Init ==
    /\ args \in Args
    /\ env \in Envs
    /\ pc = "resolve"
    /\ i = 0
    /\ out = <<>>
    /\ seen = {}

-----------------------------------------------------------------------------
(* Operators.                                                              *)

LesserOf(a, b) == IF a <= b THEN a ELSE b

\* Mutant: the hard limit forgotten.
UnclampedNumber(x, default) ==
    IF x.kind # "int" \/ x.n < 1 THEN default ELSE x.n

\* effective_max_hosts, parallelism: a default for what is no number of hosts.
Number(x, default) ==
    IF x.kind # "int" \/ x.n < 1 THEN default ELSE LesserOf(x.n, HardMax)

Limit == Number(env.max, DefaultMax)

\* The worker count of _run_multi_host.
Workers ==
    LET w == LesserOf(Number(env.par, DefaultPar), Len(out))
    IN IF w < 1 THEN 1 ELSE w

\* validate_host does not raise.
Valid(h) == h \in Wellformed /\ h \in env.allowed

List == args.hosts.list
HostGiven == args.host # NoHost

-----------------------------------------------------------------------------
(* resolve_target_hosts and the loop of validate_host_list.                *)

Resolve ==
    /\ pc = "resolve"
    /\ pc' = CASE args.hosts.kind # "none" /\ HostGiven -> "rejected"
               [] args.hosts.kind = "none" /\ ~HostGiven -> "rejected"
               [] args.hosts.kind = "none" /\ HostGiven ->
                    IF Valid(args.host) THEN "single" ELSE "rejected"
               [] args.hosts.kind = "other" /\ ~HostGiven -> "rejected"
               [] args.hosts.kind = "list" /\ ~HostGiven ->
                    IF List = <<>> \/ Len(List) > Limit THEN "rejected" ELSE "loop"
    /\ out' = IF pc' = "single" THEN <<args.host>> ELSE out
    /\ UNCHANGED <<args, env, i, seen>>

\* Mutants: a host is not remembered; a bad host is skipped; none is checked.
CheckForgetting ==
    /\ pc = "loop" /\ i < Len(List)
    /\ LET h == List[i + 1] IN
       IF ~Valid(h) THEN pc' = "rejected" /\ UNCHANGED <<i, out, seen>>
       ELSE /\ i' = i + 1
            /\ out' = IF h \in seen THEN out ELSE Append(out, h)
            /\ UNCHANGED <<pc, seen>>
    /\ UNCHANGED <<args, env>>
CheckSkipping ==
    /\ pc = "loop" /\ i < Len(List)
    /\ LET h == List[i + 1] IN
            /\ i' = i + 1
            /\ seen' = IF Valid(h) THEN seen \cup {h} ELSE seen
            /\ out' = IF h \in seen \/ ~Valid(h) THEN out ELSE Append(out, h)
    /\ UNCHANGED <<args, env, pc>>

CheckNothing ==
    /\ pc = "loop" /\ i < Len(List)
    /\ i' = i + 1
    /\ seen' = seen \cup {List[i + 1]}
    /\ out' = IF List[i + 1] \in seen THEN out ELSE Append(out, List[i + 1])
    /\ UNCHANGED <<args, env, pc>>

\* for h in hosts: ...
Check ==
    /\ pc = "loop" /\ i < Len(List)
    /\ LET h == List[i + 1] IN
       IF ~Valid(h) THEN pc' = "rejected" /\ UNCHANGED <<i, out, seen>>
       ELSE /\ i' = i + 1
            /\ seen' = seen \cup {h}
            /\ out' = IF h \in seen THEN out ELSE Append(out, h)
            /\ UNCHANGED pc
    /\ UNCHANGED <<args, env>>

Return ==
    /\ pc = "loop" /\ i = Len(List)
    /\ pc' = "multi"
    /\ UNCHANGED <<args, env, i, out, seen>>

Next == Resolve \/ Check \/ Return

Spec == Init /\ [][Next]_vars

-----------------------------------------------------------------------------
(* What it promises.                                                       *)

\* Every variable keeps its kind of value; no malformed name is gathered.
TypeOK ==
    /\ args \in Args
    /\ env \in Envs
    /\ pc \in Verdicts \cup {"resolve", "loop"}
    /\ i \in 0..Len(List)
    /\ out \in Seq(Wellformed)
    /\ seen \in SUBSET Wellformed

\* Where a host of the list is met first.
First(h) == CHOOSE k \in 1..Len(List) :
                List[k] = h /\ \A j \in 1..(k - 1) : List[j] # h

\* The hosts of a fan-out are those of the list, each once, in the order in
\* which the list first has them (validate.py:115-122).
DedupedInOrder ==
    pc = "multi" =>
        /\ {out[k] : k \in 1..Len(out)} = {List[k] : k \in 1..Len(List)}
        /\ \A j, k \in 1..Len(out) : j < k => First(out[j]) < First(out[k])

\* A call is taken exactly when it says one thing and every host in it may be
\* asked: one bad host among good ones refuses the call before any is reached
\* (validate.py:58-70, 103-135).
Acceptable ==
    \/ /\ args.hosts.kind = "none" /\ HostGiven
       /\ Valid(args.host)
    \/ /\ args.hosts.kind = "list" /\ ~HostGiven
       /\ List # <<>>
       /\ Len(List) <= Limit
       /\ \A k \in 1..Len(List) : Valid(List[k])

AllOrNothing == pc \in Verdicts => (pc # "rejected" <=> Acceptable)

\* Whatever the environment says, a call reaches at least one host, and a list
\* that is taken has no more than the hard limit, repetitions included; it
\* has a worker for one of its hosts at least and no more workers than hosts
\* (validate.py:74-100, 109-114, server.py:241).
WithinHardMax ==
    /\ pc \in {"single", "multi"} => Len(out) \in 1..HardMax
    /\ pc = "multi" => Len(List) \in Len(out)..HardMax /\ Workers \in 1..Len(out)

-----------------------------------------------------------------------------
(* Why: an inductive invariant.                                            *)

\* What has been gathered is what has been looked at.
Gathered ==
    /\ seen = {List[k] : k \in 1..i}
    /\ \A k \in 1..i : Valid(List[k])
    /\ pc # "single" => seen = {out[k] : k \in 1..Len(out)}

\* Each host gathered has an index of its own at which the list first has it,
\* and these increase; f gives them.
FirstAt(k, h) == List[k] = h /\ \A j \in 1..(k - 1) : List[j] # h
InOrder(f) ==
    /\ \A k \in 1..Len(out) : f[k] \in 1..i /\ FirstAt(f[k], out[k])
    /\ \A j, k \in 1..Len(out) : j < k => f[j] < f[k]

Stages ==
    /\ pc \in {"resolve", "single"} => i = 0
    /\ pc = "resolve" => out = <<>>
    /\ pc \in {"loop", "multi"} =>
           /\ args.hosts.kind = "list" /\ ~HostGiven
           /\ List # <<>> /\ Len(List) <= Limit
    /\ pc = "multi" => i = Len(List)
    /\ pc = "single" => out = <<args.host>>
    /\ pc # "single" => Len(out) <= i /\ (i > 0 => Len(out) > 0)
    /\ pc \in {"single", "multi"} => Acceptable
    /\ pc = "rejected" => ~Acceptable

IInv == /\ TypeOK /\ Gathered /\ Stages
        /\ pc # "single" => \E f \in [1..Len(out) -> 1..MaxLen] : InOrder(f)
=============================================================================
