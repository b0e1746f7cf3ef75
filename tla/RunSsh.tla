------------------------------- MODULE RunSsh -------------------------------
(***************************************************************************)
(* One call of run_ssh (src/linux_info_mcp/ssh.py): the calling thread,    *)
(* its two daemon drain threads, the ssh client process it spawns, and a   *)
(* possible descendant of that process (a wrapper's background child, an   *)
(* OpenSSH ControlMaster) that inherited the write end of one or both      *)
(* pipes and may keep it after the client has exited.                      *)
(*                                                                         *)
(* Bytes are counted, never represented: stream s has had written[s] bytes *)
(* put into its pipe, pipe[s] of them are still there, and got[s] of them  *)
(* have been handed to the drain.  In between is the buffer of the         *)
(* BufferedReader that Popen puts over the pipe: it reads ahead, so what   *)
(* is taken from the pipe may be more than what was asked for.             *)
(***************************************************************************)
EXTENDS Integers

CONSTANTS Cap,        \* max_bytes(): LINUX_INFO_MAX_BYTES
          Chunk,      \* the most one pipe.read() asks for (65536 in the code)
          BufSize,    \* bytes the reader's buffer holds (8192, or the pipe's block size)
          PipeCap,    \* bytes a pipe holds before its writer blocks
          MarkerLen,  \* length of b"\n[timeout]"
          MaxOut,     \* bound: bytes ever written to one stream
          ExitCodes   \* exit statuses the ssh client may end with

ASSUME SizesAssumption ==
    /\ Cap \in Nat              \* a negative cap is out of scope
    /\ Chunk \in Nat \ {0}      \* a read asks for at least one byte
    /\ BufSize \in Nat \ {0}    \* a buffer holds at least one byte
    /\ PipeCap \in Nat \ {0}    \* a pipe holds at least one byte
    /\ MarkerLen \in Nat \ {0}
    /\ MaxOut \in Nat
    /\ ExitCodes \subseteq Int

Streams == {"out", "err"}
TimeoutExit == 124
KilledExit == -9

\* What the environment makes of the call before the command says anything:
\* a malformed LINUX_INFO_SSH_CMD or LINUX_INFO_MAX_BYTES, no ssh program,
\* a malformed LINUX_INFO_TIMEOUT, or nothing wrong.
Setups == {"ok", "bad_env", "no_ssh", "bad_timeout"}

VARIABLES
    setup,      \* \in Setups, fixed
    inherits,   \* streams whose write end a descendant inherited, fixed
    holder,     \* TRUE while that descendant is alive
    child,      \* the ssh client: "none", "running", "exited"
    rc,         \* its exit status once it has exited
    reaped,     \* TRUE once proc.wait() (or poll) collected the status
    open,       \* [Streams -> BOOLEAN]: our read end is open
    pipe,       \* [Streams -> Nat]: bytes in the pipe
    written,    \* [Streams -> Nat]: bytes ever put into the pipe
    drain,      \* [Streams -> ...]: the drain thread
    total,      \* [Streams -> Nat]: `total` of _read_bounded
    got,        \* [Streams -> Nat]: total plus what the read in progress holds
    bufPos,     \* [Streams -> Nat]: bytes of the reader's buffer handed out
    bufEnd,     \* [Streams -> Nat]: bytes the reader's buffer was filled with
    pc,         \* the calling thread
    timedOut,   \* `timed_out`
    collected,  \* what the calling thread took from out_box and err_box
    result      \* the SshResult

env     == <<setup, inherits>>
world   == <<holder, child, rc>>
data    == <<pipe, written>>
reader  == <<bufPos, bufEnd>>
threads == <<drain, total, got, reader>>
locals  == <<timedOut, collected, result>>
vars    == <<env, world, reaped, open, data, threads, pc, locals>>

LesserOf(a, b) == IF a <= b THEN a ELSE b

EmptyBox == [len |-> 0, over |-> FALSE]
NoResult == [stdout |-> 0, stderr |-> 0, marker |-> 0, exit |-> 0,
             truncated |-> FALSE, stderrTruncated |-> FALSE]

Init ==
    /\ setup \in Setups
    /\ inherits \in SUBSET Streams
    /\ holder = FALSE
    /\ child = "none"
    /\ rc = 0
    /\ reaped = FALSE
    /\ open = [s \in Streams |-> FALSE]
    /\ pipe = [s \in Streams |-> 0]
    /\ written = [s \in Streams |-> 0]
    /\ drain = [s \in Streams |-> "unborn"]
    /\ total = [s \in Streams |-> 0]
    /\ got = [s \in Streams |-> 0]
    /\ bufPos = [s \in Streams |-> 0]
    /\ bufEnd = [s \in Streams |-> 0]
    /\ pc = "call"
    /\ timedOut = FALSE
    /\ collected = [s \in Streams |-> EmptyBox]
    /\ result = NoResult

-----------------------------------------------------------------------------
(* The ssh client and its descendant.                                      *)

Put(s) ==
    /\ open[s]
    /\ pipe[s] < PipeCap
    /\ written[s] < MaxOut
    /\ pipe' = [pipe EXCEPT ![s] = @ + 1]
    /\ written' = [written EXCEPT ![s] = @ + 1]

\* A writer that finds the pipe full blocks: the action is then disabled.
ChildWrites(s) ==
    /\ child = "running"
    /\ Put(s)
    /\ UNCHANGED <<env, world, reaped, open, threads, pc, locals>>

HolderWrites(s) ==
    /\ holder /\ s \in inherits
    /\ Put(s)
    /\ UNCHANGED <<env, world, reaped, open, threads, pc, locals>>

\* The client may end at any time, with any status: a remote command that
\* stops short or is killed is one that writes less.
ChildExits ==
    /\ child = "running"
    /\ child' = "exited"
    /\ rc' \in ExitCodes
    /\ UNCHANGED <<env, holder, reaped, open, data, threads, pc, locals>>

\* Writing to a pipe whose read end is closed kills the writer (SIGPIPE).
ChildBrokenPipe ==
    /\ child = "running"
    /\ \E s \in Streams : ~open[s]
    /\ child' = "exited"
    /\ rc' \in ExitCodes
    /\ UNCHANGED <<env, holder, reaped, open, data, threads, pc, locals>>

HolderBrokenPipe ==
    /\ holder
    /\ \E s \in inherits : ~open[s]
    /\ holder' = FALSE
    /\ UNCHANGED <<env, child, rc, reaped, open, data, threads, pc, locals>>

HolderReleases ==
    /\ holder
    /\ holder' = FALSE
    /\ UNCHANGED <<env, child, rc, reaped, open, data, threads, pc, locals>>

\* No process has the write end any more: an empty pipe reads as end of file.
NoWriter(s) == child = "exited" /\ ~(holder /\ s \in inherits)

-----------------------------------------------------------------------------
(* The drain threads: out_box["v"] = _read_bounded(proc.stdout, cap).      *)

\* Mutants: no extra byte to tell an overflow by; no bound at all.
TargetWithoutProbe == Cap
TargetUnbounded == MaxOut + 1

Target == Cap + 1
Wanted(s) == LesserOf(Chunk, Target - total[s])

\* Bytes the reader has taken from the pipe and not handed out yet, and bytes
\* the read in progress still lacks.
Ahead(s) == bufEnd[s] - bufPos[s]
Lacks(s) == total[s] + Wanted(s) - got[s]

\* The loop test, and pipe.read(n) up to its first system call: what is ahead
\* is handed out first, and a buffer it empties is filled anew.  A read on a
\* pipe object that was closed meanwhile raises, and the thread ends without
\* filling its box.
BeginRead(s) ==
    /\ drain[s] = "loop" /\ total[s] < Target
    /\ IF open[s]
       THEN LET n == LesserOf(Wanted(s), Ahead(s)) IN
            /\ drain' = [drain EXCEPT ![s] = "reading"]
            /\ got' = [got EXCEPT ![s] = @ + n]
            /\ bufPos' = [bufPos EXCEPT ![s] = IF n < Ahead(s) THEN @ + n ELSE 0]
            /\ bufEnd' = [bufEnd EXCEPT ![s] = IF n < Ahead(s) THEN @ ELSE 0]
       ELSE /\ drain' = [drain EXCEPT ![s] = "failed"]
            /\ UNCHANGED <<got, reader>>
    /\ UNCHANGED <<env, world, reaped, open, data, total, pc, locals>>

\* One system call of the read in progress, which asks the kernel until it has
\* n bytes or end of file, holding the reader's lock throughout.  Whole blocks
\* are taken as such; what is less than a block goes through the buffer, which
\* takes as much as it has room for, whether that was asked for or not.
TakeBlocks(s) ==
    LET n == LesserOf(pipe[s], Lacks(s) - (Lacks(s) % BufSize))
    IN /\ Lacks(s) >= BufSize
       /\ pipe' = [pipe EXCEPT ![s] = @ - n]
       /\ got' = [got EXCEPT ![s] = @ + n]
       /\ UNCHANGED reader

FillBuffer(s) ==
    LET n == LesserOf(pipe[s], BufSize - bufEnd[s])
        used == LesserOf(n, Lacks(s))
    IN /\ Lacks(s) < BufSize
       /\ pipe' = [pipe EXCEPT ![s] = @ - n]
       /\ got' = [got EXCEPT ![s] = @ + used]
       /\ bufEnd' = [bufEnd EXCEPT ![s] = @ + n]
       /\ bufPos' = [bufPos EXCEPT ![s] = @ + used]

Take(s) ==
    /\ drain[s] = "reading" /\ Lacks(s) > 0 /\ pipe[s] > 0
    /\ TakeBlocks(s) \/ FillBuffer(s)
    /\ UNCHANGED <<env, world, reaped, open, written, drain, total, pc, locals>>

\* Mutant: one read is taken for the whole stream.
ReadOnce(s) ==
    /\ drain[s] = "reading"
    /\ Lacks(s) = 0 \/ (pipe[s] = 0 /\ NoWriter(s))
    /\ drain' = [drain EXCEPT ![s] = "done"]
    /\ total' = [total EXCEPT ![s] = got[s]]
    /\ UNCHANGED <<env, world, reaped, open, data, got, reader, pc, locals>>

ReadReturns(s) ==
    /\ drain[s] = "reading"
    /\ Lacks(s) = 0 \/ (pipe[s] = 0 /\ NoWriter(s))
    /\ drain' = [drain EXCEPT ![s] = IF got[s] = total[s] THEN "done" ELSE "loop"]
    /\ total' = [total EXCEPT ![s] = got[s]]
    /\ UNCHANGED <<env, world, reaped, open, data, got, reader, pc, locals>>

ReadEnough(s) ==
    /\ drain[s] = "loop" /\ total[s] >= Target
    /\ drain' = [drain EXCEPT ![s] = "done"]
    /\ UNCHANGED <<env, world, reaped, open, data, total, got, reader, pc, locals>>

\* The thread waits in the kernel for bytes that are not there.
Blocked(s) == drain[s] = "reading" /\ pipe[s] = 0 /\ ~NoWriter(s)
                /\ Lacks(s) > 0

\* Mutant: a stream that fills the cap exactly counts as cut.
BoxFlaggedAtCap(s) ==
    IF drain[s] = "done"
    THEN [len |-> LesserOf(total[s], Cap), over |-> total[s] >= Cap]
    ELSE EmptyBox

\* box.get("v", (b"", False)): the default if the thread has not finished.
Box(s) == IF drain[s] = "done"
          THEN [len |-> LesserOf(total[s], Cap), over |-> total[s] > Cap]
          ELSE EmptyBox

-----------------------------------------------------------------------------
(* The calling thread.                                                     *)

\* _ssh_argv(), max_bytes() or Popen raises: nothing was started.
Reject ==
    /\ pc = "call" /\ setup \in {"bad_env", "no_ssh"}
    /\ pc' = "raised"
    /\ UNCHANGED <<env, world, reaped, open, data, threads, locals>>

Spawn ==
    /\ pc = "call" /\ setup \in {"ok", "bad_timeout"}
    /\ child' = "running"
    /\ holder' = (inherits # {})
    /\ open' = [s \in Streams |-> TRUE]
    /\ drain' = [s \in Streams |-> "loop"]
    /\ pc' = "arm"
    /\ UNCHANGED <<env, rc, reaped, data, total, got, reader, locals>>

\* _timeout() is evaluated only now; if it raises, the finally clause runs.
ReadTimeout ==
    /\ pc = "arm"
    /\ pc' = IF setup = "bad_timeout" THEN "close_out" ELSE "wait"
    /\ UNCHANGED <<env, world, reaped, open, data, threads, locals>>

\* Mutant: the drains are not waited for once the client is gone.
WaitReturnsWithoutJoin ==
    /\ pc = "wait" /\ child = "exited"
    /\ reaped' = TRUE
    /\ pc' = "close_out"
    /\ UNCHANGED <<env, world, open, data, threads, locals>>

WaitReturns ==
    /\ pc = "wait" /\ child = "exited"
    /\ reaped' = TRUE
    /\ pc' = "join_out"
    /\ UNCHANGED <<env, world, open, data, threads, locals>>

\* The last poll found the client running; it may still exit before the kill.
WaitExpires ==
    /\ pc = "wait" /\ child = "running"
    /\ timedOut' = TRUE
    /\ pc' = "kill"
    /\ UNCHANGED <<env, world, reaped, open, data, threads, collected, result>>

\* Mutant: the client is told nothing.
KillNothing ==
    /\ pc = "kill"
    /\ pc' = "reap"
    /\ UNCHANGED <<env, world, reaped, open, data, threads, locals>>

\* Popen.kill() polls first: a client that has exited is reaped, not killed.
Kill ==
    /\ pc = "kill"
    /\ child' = "exited"
    /\ rc' = IF child = "running" THEN KilledExit ELSE rc
    /\ reaped' = (child = "exited")
    /\ pc' = "reap"
    /\ UNCHANGED <<env, holder, open, data, threads, locals>>

\* Mutant: the killed client is not waited for.
ReapSkipped ==
    /\ pc = "reap"
    /\ pc' = "join_out"
    /\ UNCHANGED <<env, world, reaped, open, data, threads, locals>>

Reap ==
    /\ pc = "reap" /\ child = "exited"
    /\ reaped' = TRUE
    /\ pc' = "join_out"
    /\ UNCHANGED <<env, world, open, data, threads, locals>>

\* join(timeout=2.0).  It gives up only on a thread that is stuck in a read:
\* a drain that can run is assumed to get through what is left in time.
Join(s, here, next) ==
    /\ pc = here
    /\ drain[s] \in {"done", "failed"} \/ Blocked(s)
    /\ pc' = next
    /\ UNCHANGED <<env, world, reaped, open, data, threads, locals>>

Collect ==
    /\ pc = "collect"
    /\ collected' = [s \in Streams |-> Box(s)]
    /\ pc' = "close_out"
    /\ UNCHANGED <<env, world, reaped, open, data, threads, timedOut, result>>

\* Mutant: the pipes stay open.
CloseNothing(s, here, next) ==
    /\ pc = here
    /\ drain[s] # "reading"
    /\ pc' = next
    /\ UNCHANGED <<env, world, reaped, open, data, threads, locals>>

\* Closing a BufferedReader takes its lock: it waits for a read in progress.
Close(s, here, next) ==
    /\ pc = here
    /\ drain[s] # "reading"
    /\ open' = [open EXCEPT ![s] = FALSE]
    /\ pc' = next
    /\ UNCHANGED <<env, world, reaped, data, threads, locals>>

CloseLast == Close("err", "close_err",
                   IF setup = "bad_timeout" THEN "raised" ELSE "finish")

\* Mutants: the marked stderr is not cut; it is cut and nobody is told.
MarkedUncut(err) == [len |-> err.len + MarkerLen, over |-> err.over]
MarkedUnflagged(err) == [len |-> LesserOf(err.len + MarkerLen, Cap), over |-> err.over]

\* stderr plus the timeout marker, cut back to the cap.
Marked(err) ==
    LET both == err.len + MarkerLen
    IN [len |-> LesserOf(both, Cap), over |-> err.over \/ both > Cap]

Answer ==
    LET plain  == collected["err"]
        stderr == IF timedOut THEN Marked(plain) ELSE plain
    IN [stdout          |-> collected["out"].len,
        stderr          |-> stderr.len,
        marker          |-> stderr.len - plain.len,
        exit            |-> IF timedOut THEN TimeoutExit ELSE rc,
        truncated       |-> collected["out"].over,
        stderrTruncated |-> stderr.over]

Finish ==
    /\ pc = "finish"
    /\ result' = Answer
    /\ pc' = "returned"
    /\ UNCHANGED <<env, world, reaped, open, data, threads, timedOut, collected>>

-----------------------------------------------------------------------------

Ended == pc \in {"returned", "raised"}

Drain(s) == BeginRead(s) \/ Take(s) \/ ReadReturns(s) \/ ReadEnough(s)

Main ==
    \/ Reject \/ Spawn \/ ReadTimeout
    \/ WaitReturns \/ WaitExpires \/ Kill \/ Reap
    \/ Join("out", "join_out", "join_err")
    \/ Join("err", "join_err", "collect")
    \/ Collect
    \/ Close("out", "close_out", "close_err")
    \/ CloseLast
    \/ Finish

World ==
    \/ \E s \in Streams : ChildWrites(s) \/ HolderWrites(s)
    \/ ChildExits \/ ChildBrokenPipe
    \/ HolderReleases \/ HolderBrokenPipe

Next == Main \/ (\E s \in Streams : Drain(s)) \/ World

\* Python threads that can run do run, and time passes: both waits expire.
\* Nothing is assumed of the remote command or of the descendant.
ThreadFairness == WF_vars(Main) /\ \A s \in Streams : WF_vars(Drain(s))

Spec == Init /\ [][Next]_vars /\ ThreadFairness

\* The same system where the descendant lets go of the pipes eventually
\* (a ControlMaster with ControlPersist=60s does).
ReleasingSpec == Spec /\ WF_vars(HolderReleases)
-----------------------------------------------------------------------------
(* What a call promises.                                                   *)

\* Every variable keeps its kind of value.
BoxType == [len : 0..Cap, over : BOOLEAN]
PcType == {"call", "arm", "wait", "kill", "reap", "join_out", "join_err",
           "collect", "close_out", "close_err", "finish", "returned", "raised"}

TypeOK ==
    /\ setup \in Setups
    /\ inherits \in SUBSET Streams
    /\ holder \in BOOLEAN
    /\ child \in {"none", "running", "exited"}
    /\ rc \in Int
    /\ reaped \in BOOLEAN
    /\ open \in [Streams -> BOOLEAN]
    /\ pipe \in [Streams -> Nat]
    /\ written \in [Streams -> Nat]
    /\ drain \in [Streams -> {"unborn", "loop", "reading", "done", "failed"}]
    /\ total \in [Streams -> Nat]
    /\ got \in [Streams -> Nat]
    /\ bufPos \in [Streams -> Nat]
    /\ bufEnd \in [Streams -> Nat]
    /\ pc \in PcType
    /\ timedOut \in BOOLEAN
    /\ collected \in [Streams -> BoxType]
    /\ result \in [stdout : 0..Cap, stderr : 0..Cap, marker : 0..MarkerLen,
                   exit : Int, truncated : BOOLEAN, stderrTruncated : BOOLEAN]

\* A stream no descendant inherited is reported in full up to the cap, and
\* flagged exactly when something was cut - after a clean exit, after a kill,
\* and when the timeout raced the exit (ssh.py:193-201).
FaithfulAnswer ==
    pc = "returned" =>
        /\ "out" \notin inherits =>
              /\ result.stdout = LesserOf(written["out"], Cap)
              /\ result.truncated <=> written["out"] > Cap
        /\ "err" \notin inherits =>
              /\ result.stderr - result.marker = LesserOf(written["err"], Cap)
              /\ written["err"] > Cap => result.stderrTruncated
              /\ result.stderrTruncated /\ ~timedOut => written["err"] > Cap

\* Whoever holds the pipes, a truncation flag never comes without a reason
\* and no byte is reported that was not written (ssh.py:154-156, 200-201).
NothingInvented ==
    pc = "returned" =>
        /\ result.truncated => result.stdout = Cap /\ written["out"] > Cap
        /\ result.stdout <= written["out"]
        /\ result.stderr - result.marker <= written["err"]

\* A timeout is reported as 124 and leaves its marker whole in stderr, or
\* says that stderr was cut; no other answer carries a marker
\* (ssh.py:209-215).
MarkedOrFlagged ==
    pc = "returned" =>
        IF timedOut
        THEN /\ result.exit = TimeoutExit
             /\ result.marker = MarkerLen \/ result.stderrTruncated
        ELSE result.marker = 0 /\ result.exit = rc

\* An answer is given only once the client is gone and collected and both
\* pipes are closed: no zombie and no descriptor outlives the call
\* (ssh.py:193-206).
NothingLeftBehind ==
    pc = "returned" =>
        /\ child = "exited" /\ reaped
        /\ \A s \in Streams : ~open[s]

\* A drain thread dies of a closed pipe only where a descendant kept the
\* pipe from ending, or the call itself is raising (ssh.py:148, 202-206).
DrainDiesOnlyIfHeld ==
    \A s \in Streams :
        drain[s] = "failed" => s \in inherits \/ setup = "bad_timeout"

\* However much the host sends, no more is ever accepted from it than the cap
\* and one byte, what the reader takes ahead with the last byte asked for, and
\* one pipe's worth (ssh.py:142-153).
BoundedIntake ==
    \A s \in Streams : written[s] <= Cap + BufSize + PipeCap

\* Bytes are left unread in a pipe - where they can block the client until
\* our own timeout kills it - only once the cap has been overrun, so such a
\* call is flagged (ssh.py:146-150).
UnreadOnlyPastCap ==
    \A s \in Streams :
        drain[s] = "done" /\ pipe[s] > 0 => written[s] > Cap + 1

\* If descendants let go of the pipes, a call with a readable timeout ends:
\* no order of exits, kills, full pipes and joins makes the threads wait for
\* one another (ssh.py:192-206).
CallEnds == setup # "bad_timeout" => <>Ended
-----------------------------------------------------------------------------
(* Why the promises hold: an inductive invariant.                          *)

\* Every byte is accounted for, and a drain that is done has either enough or
\* everything there will ever be.
Accounts ==
    \A s \in Streams :
        /\ written[s] = got[s] + Ahead(s) + pipe[s]
        /\ pipe[s] <= PipeCap
        /\ total[s] <= got[s] /\ got[s] <= Target
        /\ drain[s] # "reading" => got[s] = total[s]
        /\ drain[s] = "reading" => open[s] /\ total[s] < Target /\ Lacks(s) >= 0
        /\ drain[s] = "done" =>
              total[s] = Target \/ (Ahead(s) = 0 /\ pipe[s] = 0 /\ NoWriter(s))

\* A byte that was filled in was asked for, or comes behind one that was: the
\* buffer never holds a whole block nobody asked for.  It is filled up only by
\* the read that is satisfied with it.
Buffered ==
    \A s \in Streams :
        /\ bufPos[s] <= bufEnd[s] /\ bufEnd[s] <= BufSize
        /\ bufEnd[s] # 0 => bufPos[s] # 0
        /\ drain[s] = "reading" /\ Lacks(s) > 0 =>
              /\ Ahead(s) = 0
              /\ bufEnd[s] # 0 => bufEnd[s] + Lacks(s) < BufSize

BothClosed == {"call", "finish", "returned", "raised"}
OpenByStage ==
    /\ open["out"] <=> pc \notin BothClosed \cup {"close_err"}
    /\ open["err"] <=> pc \notin BothClosed

\* How far the calling thread can be under each setup, and what it has done.
Taking   == {"close_out", "close_err", "finish", "returned"}
OutDone  == {"join_err", "collect"} \cup Taking
Settled  == {"join_out"} \cup OutDone
Stages ==
    /\ pc = "call" => child = "none" /\ \A s \in Streams : drain[s] = "unborn"
    /\ pc \in {"call", "arm", "wait"} => ~timedOut
    /\ setup \in {"bad_env", "no_ssh"} =>
          pc \in {"call", "raised"} /\ \A s \in Streams : drain[s] = "unborn"
    /\ setup = "bad_timeout" =>
          pc \in {"call", "arm", "close_out", "close_err", "raised"}
    /\ setup = "ok" => pc # "raised"
    /\ setup = "ok" /\ pc \in Settled => child = "exited" /\ reaped

\* The joins succeed on every stream nobody else holds.
Joined ==
    setup = "ok" =>
        /\ pc \in OutDone /\ "out" \notin inherits => drain["out"] = "done"
        /\ pc \in OutDone \ {"join_err"} /\ "err" \notin inherits => drain["err"] = "done"
        /\ \A s \in Streams : drain[s] = "failed" => s \in inherits

\* What was collected is never more than there was, and is all of it on a
\* stream nobody else holds.
Taken ==
    setup = "ok" /\ pc \in Taking =>
        \A s \in Streams :
            /\ collected[s].len <= written[s]
            /\ collected[s].over => collected[s].len = Cap /\ written[s] > Cap
            /\ s \notin inherits =>
                  /\ collected[s].len = LesserOf(got[s], Cap)
                  /\ collected[s].over <=> got[s] > Cap

Reported == pc = "returned" => setup = "ok" /\ result = Answer

\* The promises FaithfulAnswer to UnreadOnlyPastCap follow from this, and
\* every step of every process keeps it (ssh.py:142-227).
IInv == TypeOK /\ Accounts /\ Buffered /\ OpenByStage /\ Stages /\ Joined /\ Taken /\ Reported

-----------------------------------------------------------------------------
(* What the documents say of a call and the code does not keep.            *)

\* SPEC.md:71: output is cut "at LINUX_INFO_MAX_BYTES", and only then; so an
\* answer that is neither late nor flagged holds everything that was written.
UnflaggedMeansWhole ==
    pc = "returned" /\ ~timedOut /\ ~result.truncated
        => result.stdout = written["out"]

\* SECURITY.md:39: LINUX_INFO_TIMEOUT bounds an expensive command; so a call
\* whose timeout has fired ends, whatever the command and its children do.
TimeoutEndsCall == timedOut ~> Ended

-----------------------------------------------------------------------------
(* The call seen by its caller.                                            *)

Status == IF Ended THEN pc ELSE "running"

Call == INSTANCE SshCall WITH status <- Status, shared <- inherits,
                              said <- written, answer <- result

\* Every behaviour of the threads, pipes and processes is one of the simple
\* call: bytes are accepted only before the answer, the answer is given once,
\* and it is an honest one (ssh.py:159-249).
ImplementsSshCall == Call!Spec
=============================================================================
