------------------------------ MODULE SshCall ------------------------------
(***************************************************************************)
(* What run_ssh promises its callers, without threads, pipes or kills: the *)
(* command says so many bytes on each stream, and then the call either     *)
(* raises or gives one honest answer.  RunSsh implements this.             *)
(***************************************************************************)
EXTENDS Integers

CONSTANTS Cap, MarkerLen, TimeoutExit

Streams == {"out", "err"}

VARIABLES
    status,     \* "running", "returned", "raised"
    shared,     \* streams that outlive the command, about which less is known
    said,       \* [Streams -> Nat]: bytes accepted from each stream
    answer      \* meaningful once status = "returned"

vars == <<status, shared, said, answer>>

NoAnswer == [stdout |-> 0, stderr |-> 0, marker |-> 0, exit |-> 0,
             truncated |-> FALSE, stderrTruncated |-> FALSE]

Capped(n) == IF n <= Cap THEN n ELSE Cap

\* Everything up to the cap, and a flag exactly when there was more.
Whole(s, len, over) == len = Capped(said[s]) /\ (over <=> said[s] > Cap)

\* At most that, and no flag without cause.
Partial(s, len, over) == len <= Capped(said[s]) /\ (over => said[s] > Cap)

Told(s, len, over) == IF s \in shared THEN Partial(s, len, over)
                                      ELSE Whole(s, len, over)

\* An answer to a command that ended by itself.
Plain(a) == a.marker = 0 /\ Told("err", a.stderr, a.stderrTruncated)

\* An answer to a command that was cut off: status 124, and the marker after
\* what it said, as far as the cap leaves room for it.
Late(a) ==
    /\ a.exit = TimeoutExit
    /\ \E over \in BOOLEAN :
          /\ Told("err", a.stderr - a.marker, over)
          /\ \/ a.marker = MarkerLen /\ a.stderrTruncated = over
             \/ a.marker < MarkerLen /\ a.stderr = Cap /\ a.stderrTruncated

Honest(a) == Told("out", a.stdout, a.truncated) /\ (Plain(a) \/ Late(a))

Init ==
    /\ status = "running"
    /\ shared \in SUBSET Streams
    /\ said = [s \in Streams |-> 0]
    /\ answer = NoAnswer

Say(s) ==
    /\ status = "running"
    /\ said' = [said EXCEPT ![s] = @ + 1]
    /\ UNCHANGED <<status, shared, answer>>

Return ==
    /\ status = "running"
    /\ status' = "returned"
    /\ Honest(answer')
    /\ UNCHANGED <<shared, said>>

Raise ==
    /\ status = "running"
    /\ status' = "raised"
    /\ UNCHANGED <<shared, said, answer>>

Next == (\E s \in Streams : Say(s)) \/ Return \/ Raise

Spec == Init /\ [][Next]_vars
=============================================================================
